---- MODULE Spec2Model ----
(***************************************************************************)
(* Model of the configuration extractor of Purdue-Solar/Simulations:       *)
(* commands/dev_tools.py (classifier, manifest builder, scaffold           *)
(* generator, in-place rewriter, launcher writer) and the classifier of    *)
(* sim_manager.py.                                                         *)
(*                                                                         *)
(* A source file is a sequence of physical lines.  A line is a record      *)
(*   k   : the lexical shape of the line (what its text starts with and    *)
(*         which statement it holds),                                      *)
(*   ind : number of leading blanks,                                       *)
(*   n   : the assignment target / option name, a sequence of characters,  *)
(*   v   : the syntax-tree node of the right-hand side,                    *)
(*   cmt : TRUE when the line ends in an inline comment,                   *)
(*   nl  : number of newline characters that end the list element.         *)
(* A syntax-tree node is [node, op, val, elts]; a Python value is [t, v]   *)
(* with t the name of its Python type.                                     *)
(***************************************************************************)
EXTENDS Integers, Sequences, FiniteSets, TLC

\* ---------------------------------------------------------------- bounds
MaxBody == 2
MaxRuns == 2

\* ------------------------------------------------------- generic helpers
RECURSIVE SeqsUpTo(_, _)
SeqsUpTo(S, n) ==
  IF n = 0 THEN {<<>>}
  ELSE LET shorter == SeqsUpTo(S, n - 1)
       IN  shorter \cup {Append(q, x) : q \in {r \in shorter : Len(r) = n - 1}, x \in S}

RECURSIVE Flatten(_)
Flatten(ss) == IF ss = <<>> THEN <<>> ELSE Head(ss) \o Flatten(Tail(ss))

Range(f) == {f[i] : i \in DOMAIN f}

\* ------------------------------------------------------------ identifiers
NameX == <<"X">>
NameY == <<"Y">>
NameZ == <<"Z">>
NamePriv == <<"_", "p">>
NameMaxSpeed == <<"M", "_", "S">>
NameWidth == <<"W", "I", "D", "T", "H">>
NameHeight == <<"H", "E", "I", "G", "H", "T">>
NameParser == <<"p", "a", "r", "s", "e", "r">>
NameArgs == <<"a", "r", "g", "s">>
NameConfig == <<"C", "O", "N", "F", "I", "G">>
NoName == <<>>

\* str.startswith('_')
StartsWithUnderscore(name) == Len(name) > 0 /\ name[1] = "_"

\* str.lower() and str.replace('_', '-') on the characters that occur
LowerChar(ch) ==
  CASE ch = "X" -> "x" [] ch = "Y" -> "y" [] ch = "Z" -> "z"
    [] ch = "M" -> "m" [] ch = "S" -> "s" [] ch = "C" -> "c" [] ch = "O" -> "o"
    [] ch = "N" -> "n" [] ch = "F" -> "f" [] ch = "I" -> "i" [] ch = "G" -> "g"
    [] ch = "T" -> "t" [] ch = "Q" -> "q" [] ch = "E" -> "e"
    [] ch = "W" -> "w" [] ch = "D" -> "d" [] ch = "H" -> "h"
    [] OTHER -> ch

\* var_name.lower().replace('_', '-')
LowerHyphen(name) ==
  [i \in DOMAIN name |-> IF name[i] = "_" THEN "-" ELSE LowerChar(name[i])]

\* ---------------------------------------------------------- Python values
\* A value is [t, i, s, e]: t the name of its Python type, i the number of an
\* int, of a bool (True is 1) or of a float (in tenths), s the characters of a
\* str or bytes, e the elements of a list, tuple or dict.
Value(t, i, s, e) == [t |-> t, i |-> i, s |-> s, e |-> e]
PyInt(i) == Value("int", i, <<>>, <<>>)
PyBool(b) == Value("bool", IF b THEN 1 ELSE 0, <<>>, <<>>)
PyStr(s) == Value("str", 0, s, <<>>)
PyFloat(tenths) == Value("float", tenths, <<>>, <<>>)
PyBytes(s) == Value("bytes", 0, s, <<>>)
PyNone == Value("NoneType", 0, <<>>, <<>>)
PyList(es) == Value("list", 0, <<>>, es)
PyTuple(es) == Value("tuple", 0, <<>>, es)
PyDict(es) == Value("dict", 0, <<>>, es)
\* one key: value pair of a dict whose keys are kept
PyItem(key, val) == Value("item", 0, <<>>, <<key, val>>)
\* the result of a failed static evaluation (ValueError out of literal_eval)
EvalError == Value("<ValueError>", 0, <<>>, <<>>)
IsEvalError(value) == value.t = "<ValueError>"
\* value is None
IsNone(value) == value.t = "NoneType"

\* ------------------------------------------------------ syntax-tree nodes
Node(kind, op, val, elts) == [node |-> kind, op |-> op, val |-> val, elts |-> elts]
Constant(val) == Node("Constant", "", val, <<>>)
NameRef(id) == Node("Name", id, PyNone, <<>>)
UnaryOp(op, operand) == Node("UnaryOp", op, PyNone, <<operand>>)
BinOp(op, l, r) == Node("BinOp", op, PyNone, <<l, r>>)
ListNode(elts) == Node("List", "", PyNone, elts)
TupleNode(elts) == Node("Tuple", "", PyNone, elts)
\* a tuple display written without parentheses: y, z
BareTupleNode(elts) == Node("Tuple", "bare", PyNone, elts)
\* a dict display; elts holds the value nodes (the keys are string constants)
DictNode(elts) == Node("Dict", "", PyNone, elts)
\* key: value inside a dict display whose keys are kept
ItemNode(key, val) == Node("item", "", PyNone, <<key, val>>)
CallNode(f) == Node("Call", f, PyNone, <<>>)
\* base.attr, attr an identifier
AttributeNode(base, attr) == Node("Attribute", base, Value("identifier", 0, attr, <<>>), <<>>)
IfExpNode == Node("IfExp", "", PyNone, <<>>)
JoinedStrNode == Node("JoinedStr", "", PyNone, <<>>)
ListCompNode == Node("ListComp", "", PyNone, <<>>)
NoNode == Node("", "", PyNone, <<>>)

\* ast.literal_eval: constants, +/- applied to an int or float constant (a bool
\* or a nested operation is rejected), list/tuple/dict displays of evaluable
\* nodes; every other node is malformed.
RECURSIVE LiteralEval(_)
LiteralEval(nd) ==
  CASE nd.node = "Constant" -> nd.val
    [] nd.node = "UnaryOp" /\ nd.op \in {"USub", "UAdd"} ->
         LET operand == nd.elts[1]
         IN  IF operand.node # "Constant" \/ operand.val.t \notin {"int", "float"}
             THEN EvalError
             ELSE [operand.val EXCEPT !.i = IF nd.op = "USub" THEN 0 - @ ELSE @]
    [] nd.node \in {"List", "Tuple", "Dict", "item"} ->
         LET vals == [i \in DOMAIN nd.elts |-> LiteralEval(nd.elts[i])]
         IN  IF \E i \in DOMAIN vals : IsEvalError(vals[i]) THEN EvalError
             ELSE IF nd.node = "List" THEN PyList(vals)
             ELSE IF nd.node = "Tuple" THEN PyTuple(vals)
             ELSE IF nd.node = "item" THEN PyItem(vals[1], vals[2])
             ELSE PyDict(vals)
    [] OTHER -> EvalError

\* ------------------------------------------------------- expression text
\* the characters of the identifiers and dotted names that occur in nodes
Spell(id) ==
  CASE id = "foo" -> <<"f", "o", "o">>
    [] id = "math" -> <<"m", "a", "t", "h">>
    [] id = "args" -> <<"a", "r", "g", "s">>
    [] id = "true" -> <<"t", "r", "u", "e">>
    [] id = "false" -> <<"f", "a", "l", "s", "e">>
    [] id = "null" -> <<"n", "u", "l", "l">>
    [] id = "WIDTH" -> <<"W", "I", "D", "T", "H">>
    [] id = "load_config" -> <<"l", "o", "a", "d", "_", "c", "o", "n", "f", "i", "g">>
    [] id = "script_dir" -> <<"s", "c", "r", "i", "p", "t", "_", "d", "i", "r">>
    [] id = "Path(__file__)" ->
         <<"P", "a", "t", "h", "(", "_", "_", "f", "i", "l", "e", "_", "_", ")">>
    [] id = "argparse.ArgumentParser" ->
         <<"a", "r", "g", "p", "a", "r", "s", "e", ".", "A", "r", "g", "u", "m", "e", "n", "t",
           "P", "a", "r", "s", "e", "r">>
    [] id = "parser.parse_args" ->
         <<"p", "a", "r", "s", "e", "r", ".", "p", "a", "r", "s", "e", "_", "a", "r", "g", "s">>
    [] OTHER -> <<id>>

DigitChar(d) ==
  CASE d = 0 -> "0" [] d = 1 -> "1" [] d = 2 -> "2" [] d = 3 -> "3" [] d = 4 -> "4"
    [] d = 5 -> "5" [] d = 6 -> "6" [] d = 7 -> "7" [] d = 8 -> "8" [] OTHER -> "9"

\* str(i) of an int
RECURSIVE IntText(_)
IntText(i) ==
  IF i < 0 THEN <<"-">> \o IntText(0 - i)
  ELSE IF i < 10 THEN <<DigitChar(i)>>
  ELSE IntText(i \div 10) \o <<DigitChar(i % 10)>>

\* str(x) of a float given in tenths
FloatText(tenths) ==
  IF tenths < 0 THEN <<"-">> \o IntText((0 - tenths) \div 10) \o <<".", DigitChar((0 - tenths) % 10)>>
  ELSE IntText(tenths \div 10) \o <<".", DigitChar(tenths % 10)>>

\* ', '.join(parts)
RECURSIVE Join(_)
Join(parts) ==
  IF parts = <<>> THEN <<>>
  ELSE IF Len(parts) = 1 THEN parts[1]
  ELSE parts[1] \o <<",", " ">> \o Join(Tail(parts))

\* repr(value); a dict element that is no key: value pair is the value of an
\* unnamed key, spelled 'k'
RECURSIVE Repr(_)
Repr(value) ==
  CASE value.t = "int" -> IntText(value.i)
    [] value.t = "float" -> FloatText(value.i)
    [] value.t = "bool" -> IF value.i = 1 THEN <<"T", "r", "u", "e">> ELSE <<"F", "a", "l", "s", "e">>
    [] value.t = "NoneType" -> <<"N", "o", "n", "e">>
    [] value.t = "str" -> <<"'">> \o value.s \o <<"'">>
    [] value.t = "bytes" -> <<"b", "'">> \o value.s \o <<"'">>
    [] value.t = "list" -> <<"[">> \o Join([j \in DOMAIN value.e |-> Repr(value.e[j])]) \o <<"]">>
    [] value.t = "tuple" -> <<"(">> \o Join([j \in DOMAIN value.e |-> Repr(value.e[j])]) \o <<")">>
    [] value.t = "dict" ->
         <<"{">> \o Join([j \in DOMAIN value.e |->
                           (IF value.e[j].t = "item" THEN <<>> ELSE <<"'", "k", "'", ":", " ">>)
                           \o Repr(value.e[j])])
         \o <<"}">>
    [] value.t = "item" -> Repr(value.e[1]) \o <<":", " ">> \o Repr(value.e[2])
    [] OTHER -> value.s

\* str(value): a str is its own text, every other value its repr
Str(value) == IF value.t = "str" THEN value.s ELSE Repr(value)

\* ---- reading numbers
IsDigit(ch) == ch \in {"0", "1", "2", "3", "4", "5", "6", "7", "8", "9"}

DigitValue(ch) ==
  CASE ch = "0" -> 0 [] ch = "1" -> 1 [] ch = "2" -> 2 [] ch = "3" -> 3 [] ch = "4" -> 4
    [] ch = "5" -> 5 [] ch = "6" -> 6 [] ch = "7" -> 7 [] ch = "8" -> 8 [] OTHER -> 9

RECURSIVE DigitsValue(_)
DigitsValue(text) ==
  IF text = <<>> THEN 0
  ELSE 10 * DigitsValue(SubSeq(text, 1, Len(text) - 1)) + DigitValue(text[Len(text)])

AllDigits(text) == text # <<>> /\ \A i \in DOMAIN text : IsDigit(text[i])

\* int(text): an optional sign and digits, ValueError for every other text
ParseInt(text) ==
  IF AllDigits(text) THEN PyInt(DigitsValue(text))
  ELSE IF text # <<>> /\ text[1] \in {"-", "+"} /\ AllDigits(Tail(text))
       THEN PyInt(IF text[1] = "-" THEN 0 - DigitsValue(Tail(text)) ELSE DigitsValue(Tail(text)))
  ELSE EvalError

\* float(text) for a text of digits with at most one decimal digit
ParseFloat(text) ==
  LET signed == text # <<>> /\ text[1] \in {"-", "+"}
      body == IF signed THEN Tail(text) ELSE text
      sign == IF signed /\ text[1] = "-" THEN 0 - 1 ELSE 1
  IN  IF AllDigits(body) THEN PyFloat(sign * 10 * DigitsValue(body))
      ELSE IF Len(body) >= 3 /\ body[Len(body) - 1] = "." /\ IsDigit(body[Len(body)])
              /\ AllDigits(SubSeq(body, 1, Len(body) - 2))
           THEN PyFloat(sign * (10 * DigitsValue(SubSeq(body, 1, Len(body) - 2))
                                + DigitValue(body[Len(body)])))
      ELSE EvalError

\* text.lower()
Lower(text) == [i \in DOMAIN text |-> LowerChar(text[i])]

\* The text of an expression.  written = TRUE gives the text as it stands in
\* the file (ast.get_source_segment), where a tuple display may come without
\* parentheses; written = FALSE the text that ast.unparse produces.
RECURSIVE ExprText(_, _)
ExprText(nd, written) ==
  LET parts == [j \in DOMAIN nd.elts |-> ExprText(nd.elts[j], written)]
  IN  CASE nd.node = "Constant" -> Repr(nd.val)
        [] nd.node = "Name" -> Spell(nd.op)
        [] nd.node = "UnaryOp" ->
             (IF nd.op = "USub" THEN <<"-">> ELSE IF nd.op = "UAdd" THEN <<"+">>
              ELSE <<"n", "o", "t", " ">>) \o parts[1]
        [] nd.node = "BinOp" ->
             parts[1] \o <<" ", IF nd.op = "Mult" THEN "*" ELSE "/", " ">> \o parts[2]
        [] nd.node = "List" -> <<"[">> \o Join(parts) \o <<"]">>
        [] nd.node = "Tuple" ->
             IF written /\ nd.op = "bare" THEN Join(parts) ELSE <<"(">> \o Join(parts) \o <<")">>
        [] nd.node = "Dict" ->
             <<"{">> \o Join([j \in DOMAIN parts |->
                               (IF nd.elts[j].node = "item" THEN <<>> ELSE <<"'", "k", "'", ":", " ">>)
                               \o parts[j]])
             \o <<"}">>
        [] nd.node = "item" -> parts[1] \o <<":", " ">> \o parts[2]
        [] nd.node = "Call" -> Spell(nd.op) \o <<"(", ")">>
        [] nd.node = "Attribute" -> Spell(nd.op) \o <<".">> \o nd.val.s
        [] nd.node = "IfExp" -> <<"y", " ", "i", "f", " ", "z", " ", "e", "l", "s", "e", " ", "w">>
        [] nd.node = "JoinedStr" -> <<"f", "'", "{", "y", "}", "'">>
        [] nd.node = "ListComp" ->
             <<"[", "i", " ", "f", "o", "r", " ", "i", " ", "i", "n", " ", "y", "]">>
        [] OTHER -> <<>>

\* ast.unparse(node.value)
SourceText(nd) == PyStr(ExprText(nd, FALSE))

\* ast.get_source_segment(content, node.value)
SourceSegment(nd) == PyStr(ExprText(nd, TRUE))

\* ------------------------------------------------------------------ lines
Line(k, ind, n, v, cmt, nl) ==
  [k |-> k, ind |-> ind, n |-> n, v |-> v, cmt |-> cmt, nl |-> nl]

Shebang == Line("shebang", 0, NoName, NoNode, FALSE, 1)      \* #!/usr/bin/env python3
Comment == Line("comment", 0, NoName, NoNode, FALSE, 1)      \* # text
Blank == Line("blank", 0, NoName, NoNode, FALSE, 1)
Doc1 == Line("doc1", 0, NoName, NoNode, FALSE, 1)            \* """text"""
DocOpen == Line("docopen", 0, NoName, NoNode, FALSE, 1)      \* """text
DocText == Line("doctext", 0, NoName, NoNode, FALSE, 1)      \* text
DocClose == Line("docclose", 0, NoName, NoNode, FALSE, 1)    \* """
Import(mod) == Line("import", 0, mod, NoNode, FALSE, 1)      \* import mod
FromImport(mod) == Line("from", 0, mod, NoNode, FALSE, 1)    \* from mod import x
FromOpen == Line("fromopen", 0, <<"o", "s">>, NoNode, FALSE, 1)   \* from os import (
Cont == Line("cont", 4, NoName, NoNode, FALSE, 1)            \*     item,
Close == Line("close", 0, NoName, NoNode, FALSE, 1)          \* ) or ] or }
\* import os; NAME = value
ImportAssign(n, v) == Line("impassign", 0, n, v, FALSE, 1)
\* NAME = value, optionally indented, optionally followed by  # comment
Assign(n, v, ind, cmt) == Line("assign", ind, n, v, cmt, 1)
\* NAME = [   (the first line of a display that spans several lines)
AssignOpen(n, v) == Line("assignopen", 0, n, v, FALSE, 1)
MultiAssign(n, v) == Line("multiassign", 0, n, v, FALSE, 1)  \* NAME = Z = value
TupleAssign(n, v) == Line("tupleassign", 0, n, v, FALSE, 1)  \* NAME, Z = value
Def == Line("def", 0, NoName, NoNode, FALSE, 1)              \* def f():
IfHeader == Line("if", 0, NoName, NoNode, FALSE, 1)          \* if condition:
ExprStmt(ind) == Line("expr", ind, NoName, NoNode, FALSE, 1) \* print(x) / return x
SyntaxErr == Line("syntaxerr", 0, NoName, NoNode, FALSE, 1)  \* text that is no statement
\* parser.add_argument("--NAME", type=..., default=..., help=...)
AddArgument(n, v) == Line("addarg", 0, n, v, FALSE, 1)

\* parser.add_argument('--flag', type=..., default=..., help='NAME (default: ...)')
\* as sim_manager.py writes it; n is the variable name
SimAddArgument(n, v) == Line("simaddarg", 0, n, v, FALSE, 1)
\* the list element '\n# Parse command-line arguments (auto-generated)\n'
NlComment == Line("nlcomment", 0, NoName, NoNode, FALSE, 1)
\* bytes that are no UTF-8 text: f.read() and f.readlines() raise
\* UnicodeDecodeError on a file that holds them
Undecodable == Line("undecodable", 0, NoName, NoNode, FALSE, 1)

\* ---- what the text operations of the code observe on a line
\* line.strip().startswith('"""')
StartsTripleQuote(l) == l.k \in {"doc1", "docopen", "docclose"}
\* line.strip().count('"""')
QuoteCount(l) == IF l.k = "doc1" THEN 2 ELSE IF l.k \in {"docopen", "docclose"} THEN 1 ELSE 0
\* not line.strip()
IsEmptyLine(l) == l.k = "blank"
\* line.strip().startswith('#')
StartsHash(l) == l.k \in {"comment", "shebang"}
\* line.strip().startswith('import ') or line.strip().startswith('from ')
StartsImport(l) == l.k \in {"import", "from", "fromopen", "impassign"}
\* '=' in line
ContainsEq(l) == l.k \in {"assign", "impassign", "assignopen", "multiassign", "tupleassign", "addarg"}
\* len(line) - len(line.lstrip())
Indent(l) == l.ind
\* lines[0].startswith('#!')
StartsShebang(l) == l.k = "shebang"
\* line.strip().startswith('import') or line.strip().startswith('from')
SimStartsImport(l) == l.k \in {"import", "from", "fromopen", "impassign"}
\* 'import <mod>' in line
ContainsImportOf(l, mod) == l.k \in {"import", "impassign"} /\ l.n = mod
\* re.search(r'#.*$', line) finds a match
HasHash(l) == l.cmt \/ l.k \in {"comment", "shebang", "nlcomment"}

\* default_str of sim_manager.py line 438
SimDefaultStr(value) ==
  IF value.t = "str" /\ ~(Len(value.s) > 0 /\ value.s[1] = "<")
  THEN <<"\"">> \o value.s \o <<"\"">> ELSE Str(value)

\* the single-quoted help text of an add_argument line of sim_manager.py is
\* cut short by a quote inside default_str, and the line is no statement then
SimHelpBreaks(value) ==
  \/ "'" \in Range(SimDefaultStr(value))
  \/ value.t = "str" /\ "\"" \in Range(value.s)

\* -------------------------------------------------------------- ast.parse
\* The parser's position after a line: at module level ("top"), inside a
\* triple-quoted string ("doc"), inside an open bracket ("bracket"), right
\* after a def header ("def0"), inside a function body ("body"), or "error".
NextMode(mode, l) ==
  CASE mode = "error" -> "error"
    [] mode = "doc" -> IF QuoteCount(l) = 1 THEN "top" ELSE "doc"
    [] mode = "bracket" ->
         IF l.k = "close" THEN "top"
         ELSE IF l.k \in {"cont", "blank", "comment"} THEN "bracket"
         ELSE "error"
    [] mode = "def0" ->
         IF l.k \in {"blank", "comment"} THEN "def0"
         ELSE IF l.ind > 0 /\ l.k \in {"assign", "expr", "doc1"} THEN "body"
         ELSE "error"
    [] OTHER ->
         IF l.k \in {"blank", "comment", "shebang"} THEN mode
         ELSE IF l.k \in {"syntaxerr", "doctext", "cont", "close", "undecodable"} THEN "error"
         ELSE IF l.k = "simaddarg" /\ SimHelpBreaks(l.v.val) THEN "error"
         ELSE IF l.ind > 0 /\ mode = "top" THEN "error"
         ELSE IF l.k \in {"docopen", "docclose"} THEN "doc"
         ELSE IF l.k \in {"fromopen", "assignopen"} THEN "bracket"
         ELSE IF l.k \in {"def", "if"} THEN "def0"
         ELSE IF l.ind > 0 THEN "body"
         ELSE "top"

\* modes[i] is the parser's position before line i; modes[Len+1] the final one
RECURSIVE ModesFrom(_, _, _)
ModesFrom(lines, i, mode) ==
  IF i > Len(lines) THEN <<mode>>
  ELSE <<mode>> \o ModesFrom(lines, i + 1, NextMode(mode, lines[i]))

Modes(lines) == ModesFrom(lines, 1, "top")

\* open(...).read() with encoding='utf-8' returns the text
Decodes(lines) == \A i \in DOMAIN lines : lines[i].k # "undecodable"

\* ast.parse succeeds: no line is rejected and no string, bracket or block
\* is left open at the end of the text
Parses(lines) ==
  Modes(lines)[Len(lines) + 1] \in {"top", "body"}

IsAssignStmt(l) == l.k \in {"assign", "impassign", "assignopen", "multiassign", "tupleassign"}

\* the targets of the Assign node that a line holds
Targets(l) ==
  CASE l.k \in {"assign", "impassign", "assignopen"} -> <<[name |-> TRUE, id |-> l.n]>>
    [] l.k = "multiassign" -> <<[name |-> TRUE, id |-> l.n], [name |-> TRUE, id |-> NameZ]>>
    [] l.k = "tupleassign" -> <<[name |-> FALSE, id |-> NoName]>>
    [] OTHER -> <<>>

\* node.col_offset of the Assign node of a line
ColOffset(l) == IF l.k = "impassign" THEN 11 ELSE l.ind

\* tree.body: the 1-based line numbers of the module-level Assign nodes
ModuleAssignLines(lines) ==
  LET m == Modes(lines)
  IN  SelectSeq([i \in 1..Len(lines) |-> i],
                LAMBDA i : IsAssignStmt(lines[i]) /\ lines[i].ind = 0 /\ m[i] \in {"top", "body"})

\* the Assign nodes nested in function bodies
NestedAssignLines(lines) ==
  LET m == Modes(lines)
  IN  SelectSeq([i \in 1..Len(lines) |-> i],
                LAMBDA i : IsAssignStmt(lines[i]) /\ lines[i].ind > 0 /\ m[i] \in {"def0", "body"})

\* ast.walk visits the tree breadth first: module-level statements before
\* the statements nested in them
WalkAssignLines(lines) == ModuleAssignLines(lines) \o NestedAssignLines(lines)

\* ---------------------------------------------------------- the classifier
Binding(name, value, line, col, isexpr) ==
  [name |-> name, value |-> value, line |-> line, col |-> col, is_expression |-> isexpr]

\* dev_tools.py lines 38-61: value and is_expression of one right-hand side
ClassifyValue(nd) ==
  IF nd.node = "Constant" THEN
    [value |-> LiteralEval(nd), is_expression |-> FALSE]
  ELSE IF nd.node \in {"List", "Tuple", "Dict"} THEN
    IF ~IsEvalError(LiteralEval(nd))
    THEN [value |-> LiteralEval(nd), is_expression |-> FALSE]
    ELSE [value |-> SourceText(nd), is_expression |-> TRUE]
  ELSE IF nd.node = "UnaryOp" /\ nd.op = "USub" THEN
    IF ~IsEvalError(LiteralEval(nd))
    THEN [value |-> LiteralEval(nd), is_expression |-> FALSE]
    ELSE [value |-> PyNone, is_expression |-> FALSE]
  ELSE [value |-> SourceText(nd), is_expression |-> TRUE]

\* the bindings that one module-level line contributes (dev_tools.py 29-70)
LineBindings(l, lineno) ==
  IF Len(Targets(l)) = 1 /\ Targets(l)[1].name /\ ~StartsWithUnderscore(l.n)
     /\ ~IsNone(ClassifyValue(l.v).value)
  THEN <<Binding(l.n, ClassifyValue(l.v).value, lineno, ColOffset(l),
                 ClassifyValue(l.v).is_expression)>>
  ELSE <<>>

\* lines 20-79: an exception of read or parse is caught and gives []
_extract_variables_from_file(lines) ==
  IF ~Decodes(lines) \/ ~Parses(lines) THEN <<>>
  ELSE LET at == ModuleAssignLines(lines)
       IN  Flatten([j \in DOMAIN at |-> LineBindings(lines[at[j]], at[j])])

\* ------------------------------- the classifier of sim_manager.py
\* sim_manager.py lines 279-294 for one target of an Assign node
SimClassifyValue(nd) ==
  [value |-> IF ~IsEvalError(LiteralEval(nd)) THEN LiteralEval(nd) ELSE SourceSegment(nd),
   is_expression |-> nd.node \notin {"Constant", "List", "Dict", "Tuple"}]

\* lines 272-294: one binding for every plain-name target that is not private
SimLineBindings(l, lineno) ==
  LET named == SelectSeq(Targets(l), LAMBDA t : t.name /\ ~StartsWithUnderscore(t.id))
  IN  [j \in DOMAIN named |->
         Binding(named[j].id, SimClassifyValue(l.v).value, lineno, ColOffset(l),
                 SimClassifyValue(l.v).is_expression)]

\* lines 261-305: the bindings of one file; a file that does not parse has none
SimExtract(lines) ==
  IF ~Decodes(lines) \/ ~Parses(lines) THEN <<>>
  ELSE LET at == ModuleAssignLines(lines)
       IN  Flatten([j \in DOMAIN at |-> SimLineBindings(lines[at[j]], at[j])])

\* ------------------------------------------------- _prepare_config_data
\* A Python dict is a sequence of [key, val] pairs in insertion order;
\* d[key] = val replaces the value of a key already present, in place.
DictKeys(d) == {d[i].key : i \in DOMAIN d}

DictGet(d, key) == d[CHOOSE i \in DOMAIN d : d[i].key = key].val

DictSet(d, key, val) ==
  IF key \in DictKeys(d)
  THEN [i \in DOMAIN d |-> IF d[i].key = key THEN [key |-> key, val |-> val] ELSE d[i]]
  ELSE Append(d, [key |-> key, val |-> val])

\* type(value).__name__
TypeName(value) == value.t

\* f'--{var_name}'
ArgString(name) == <<"-", "-">> \o name

ConfigEntry(b) ==
  [value |-> b.value, type |-> TypeName(b.value), line |-> b.line, arg |-> ArgString(b.name)]

\* a manifest with an entry for every binding, Expression bindings included
RECURSIVE FileConfigOfAllBindings(_)
FileConfigOfAllBindings(vars_list) ==
  IF vars_list = <<>> THEN <<>>
  ELSE LET rest == FileConfigOfAllBindings(SubSeq(vars_list, 1, Len(vars_list) - 1))
           b == vars_list[Len(vars_list)]
       IN  DictSet(rest, b.name, ConfigEntry(b))

RECURSIVE FileConfig(_)
FileConfig(vars_list) ==
  IF vars_list = <<>> THEN <<>>
  ELSE LET rest == FileConfig(SubSeq(vars_list, 1, Len(vars_list) - 1))
           b == vars_list[Len(vars_list)]
       IN  IF b.is_expression THEN rest ELSE DictSet(rest, b.name, ConfigEntry(b))

\* extracted is a dict filename -> bindings; the result a dict filename -> dict
_prepare_config_data(extracted) ==
  [i \in DOMAIN extracted |-> [key |-> extracted[i].key, val |-> FileConfig(extracted[i].val)]]

\* ------------------------------------------------ _find_insertion_point
\* The loop of lines 123-153 from 0-based index i on; the result is the
\* 0-based index insert_line.
RECURSIVE FindFrom(_, _, _, _)
FindFrom(lines, i, insert_line, in_docstring) ==
  IF i >= Len(lines) THEN insert_line
  ELSE LET l == lines[i + 1]
       IN  IF ~in_docstring /\ StartsTripleQuote(l) THEN
             FindFrom(lines, i + 1, insert_line, QuoteCount(l) < 2)
           ELSE IF in_docstring THEN
             FindFrom(lines, i + 1, insert_line, QuoteCount(l) = 0)
           ELSE IF IsEmptyLine(l) \/ StartsHash(l) THEN
             FindFrom(lines, i + 1, insert_line, FALSE)
           ELSE IF StartsImport(l) THEN
             FindFrom(lines, i + 1, i + 1, FALSE)
           ELSE insert_line

_find_insertion_point(lines) == FindFrom(lines, 0, 0, FALSE)

\* ---------------------------------------------- _generate_argparse_code
\* The function that the scaffold registers as type= for a binding of the
\* given value, applied to the text of a command-line argument: the lambda
\* of line 178 for a bool, int or float of line 183, str of line 190.  int and
\* float raise ValueError for a text that is no number.
ScaffoldTrueTokens == {<<"t", "r", "u", "e">>, <<"1">>, <<"y", "e", "s">>, <<"y">>}

\* type=bool: every text but the empty one is True
CoerceByTruthiness(value, text) ==
  IF value.t = "bool" THEN PyBool(text # <<>>)
  ELSE IF value.t = "int" THEN ParseInt(text)
  ELSE IF value.t = "float" THEN ParseFloat(text)
  ELSE PyStr(text)

Coerce(value, text) ==
  IF value.t = "bool" THEN PyBool(Lower(text) \in ScaffoldTrueTokens)
  ELSE IF value.t = "int" THEN ParseInt(text)
  ELSE IF value.t = "float" THEN ParseFloat(text)
  ELSE PyStr(text)

ParserLine == Assign(NameParser, CallNode("argparse.ArgumentParser"), 0, FALSE)
\* the last list element is 'args = parser.parse_args()\n\n'
ArgsLine == Line("assign", 0, NameArgs, CallNode("parser.parse_args"), FALSE, 2)

\* the option string of an add_argument line: f'"--{var_name}"'
OptionOf(l) == ArgString(l.n)

_generate_argparse_code(vars) ==
  <<Blank, Comment, Import(<<"a", "r", "g", "p", "a", "r", "s", "e">>), ParserLine>>
  \o [i \in DOMAIN vars |-> AddArgument(vars[i].name, Constant(vars[i].value))]
  \o <<ArgsLine>>

\* -------------------------------------------- _modify_file_for_argparse
\* f'{indent_str}{var_name} = args.{var_name}\n'
ArgsVersion(original_line, var_name) ==
  Assign(var_name, AttributeNode("args", var_name), Indent(original_line), FALSE)

\* lines 249-263 for the assignments todo[k..], lines being 1-based here
RECURSIVE RewriteFrom(_, _, _, _)
RewriteFrom(lines, todo, k, line_offset) ==
  IF k > Len(todo) THEN lines
  ELSE LET adjusted == todo[k].line + line_offset - 1
           next == IF adjusted >= Len(lines) THEN lines
                   ELSE IF ContainsEq(lines[adjusted + 1])
                        THEN [lines EXCEPT ![adjusted + 1] = ArgsVersion(@, todo[k].name)]
                        ELSE lines
       IN  RewriteFrom(next, todo, k + 1, line_offset)

\* f.writelines(lines) followed by a later f.readlines(): an element that
\* ends in two newlines is read back as the line and an empty line
RECURSIVE WriteLines(_)
WriteLines(elems) ==
  IF elems = <<>> THEN <<>>
  ELSE LET e == Head(elems)
       IN  (IF e.k = "nlcomment" THEN <<Blank, Comment>>
            ELSE IF e.k = "nlassign" THEN <<Blank, [e EXCEPT !.k = "assign"]>>
            ELSE IF e.nl = 2 THEN <<[e EXCEPT !.nl = 1], Blank>>
            ELSE <<e>>) \o WriteLines(Tail(elems))

\* The locals of one call: written tells whether the file was written (the
\* return value), read is the list that readlines returned, inserted the list
\* after the scaffold was spliced in, out the list handed to writelines.
Modify(lines, extracted) ==
  LET configurable_vars == SelectSeq(extracted, LAMBDA b : ~b.is_expression)
      configurable_var_names == {configurable_vars[i].name : i \in DOMAIN configurable_vars}
      walk == WalkAssignLines(lines)
      picked == SelectSeq(walk, LAMBDA i : Len(Targets(lines[i])) = 1 /\ Targets(lines[i])[1].name
                                           /\ lines[i].n \in configurable_var_names)
      assignments_to_modify == [j \in DOMAIN picked |-> [name |-> lines[picked[j]].n, line |-> picked[j]]]
      insert_line == _find_insertion_point(lines)
      argparse_code == _generate_argparse_code(configurable_vars)
      inserted == SubSeq(lines, 1, insert_line) \o argparse_code
                    \o SubSeq(lines, insert_line + 1, Len(lines))
      line_offset == Len(argparse_code)
  IN  IF configurable_vars = <<>> \/ assignments_to_modify = <<>>
      THEN [written |-> FALSE, read |-> lines, out |-> lines, insert_line |-> 0,
            line_offset |-> 0, todo |-> <<>>, inserted |-> lines]
      ELSE [written |-> TRUE, read |-> lines,
            out |-> RewriteFrom(inserted, assignments_to_modify, 1, line_offset),
            insert_line |-> insert_line, line_offset |-> line_offset,
            todo |-> assignments_to_modify, inserted |-> inserted]

_modify_file_for_argparse(lines, extracted) == Modify(lines, extracted).written

\* ------------------- sim_manager.py: the manifest (lines 311-341)
\* value.startswith("<") or any(op in value for op in ["math.", "+", ...])
ContainsMathDot(text) ==
  \E i \in 1..(Len(text) - 4) : SubSeq(text, i, i + 4) = <<"m", "a", "t", "h", ".">>

LooksLikeExpression(value) ==
  /\ value.t = "str"
  /\ \/ Len(value.s) > 0 /\ value.s[1] = "<"
     \/ ContainsMathDot(value.s)
     \/ Range(value.s) \cap {"+", "-", "*", "/", "(", ")", "[", "]"} # {}

\* the option string of an add_argument line of sim_manager.py (lines
\* 441-442): f"--{var_name.lower().replace('_', '-')}"
SimOptionOf(l) == <<"-", "-">> \o LowerHyphen(l.n)

\* lines 326-332
SimTypeName(value) ==
  IF value.t \in {"bool", "int", "float"} THEN value.t ELSE "str"

SimConfigEntry(b) ==
  [value |-> b.value, type |-> SimTypeName(b.value), line |-> b.line,
   arg |-> <<"-", "-">> \o LowerHyphen(b.name)]

RECURSIVE SimFileConfig(_)
SimFileConfig(vars_list) ==
  IF vars_list = <<>> THEN <<>>
  ELSE LET rest == SimFileConfig(SubSeq(vars_list, 1, Len(vars_list) - 1))
           b == vars_list[Len(vars_list)]
       IN  IF b.is_expression \/ LooksLikeExpression(b.value) THEN rest
           ELSE DictSet(rest, b.name, SimConfigEntry(b))

SimPrepareConfigData(extracted) ==
  [i \in DOMAIN extracted |-> [key |-> extracted[i].key, val |-> SimFileConfig(extracted[i].val)]]

\* ------------------- sim_manager.py: the rewriter (lines 346-520)
\* lines 383-400: the 0-based index after comments, blank lines and the
\* module docstring
RECURSIVE SimSkipToQuoteEnd(_, _)
SimSkipToQuoteEnd(lines, p) ==
  IF p < Len(lines) /\ QuoteCount(lines[p + 1]) = 0 THEN SimSkipToQuoteEnd(lines, p + 1) ELSE p

RECURSIVE SimSkipDocstring(_, _)
SimSkipDocstring(lines, p) ==
  IF p >= Len(lines) THEN p
  ELSE LET l == lines[p + 1]
       IN  IF StartsTripleQuote(l) THEN
             IF QuoteCount(l) >= 2 THEN p + 1 ELSE SimSkipToQuoteEnd(lines, p + 1) + 1
           ELSE IF ~IsEmptyLine(l) /\ ~StartsHash(l) THEN p
           ELSE SimSkipDocstring(lines, p + 1)

\* lines 414-417
RECURSIVE SimSkipImports(_, _)
SimSkipImports(lines, p) ==
  IF p < Len(lines) /\ (SimStartsImport(lines[p + 1]) \/ IsEmptyLine(lines[p + 1]))
  THEN SimSkipImports(lines, p + 1) ELSE p

\* f"{indent}{var_name} = args.{arg_attr}{comment}\n"; the indentation of
\* the element that starts with a newline is that newline
LowerUnderscore(name) == [i \in DOMAIN name |-> LowerChar(name[i])]

SimArgsVersion(old_line, var_name) ==
  Line(IF old_line.k = "nlcomment" THEN "nlassign" ELSE "assign", Indent(old_line), var_name,
       AttributeNode("args", LowerUnderscore(var_name)), HasHash(old_line), 1)

\* lines 479-510: the bindings whose line is replaced, in vars_list order
RECURSIVE SimToReplace(_, _, _, _)
SimToReplace(vars_list, k, replaced_vars, configurable_var_names) ==
  IF k > Len(vars_list) THEN <<>>
  ELSE LET b == vars_list[k]
       IN  IF b.name \in replaced_vars
           THEN SimToReplace(vars_list, k + 1, replaced_vars, configurable_var_names)
           ELSE IF b.is_expression
           THEN SimToReplace(vars_list, k + 1, replaced_vars \cup {b.name}, configurable_var_names)
           ELSE IF b.name \notin configurable_var_names
           THEN SimToReplace(vars_list, k + 1, replaced_vars, configurable_var_names)
           ELSE <<[name |-> b.name, line |-> b.line]>>
                \o SimToReplace(vars_list, k + 1, replaced_vars \cup {b.name}, configurable_var_names)

\* list.insert(p, x): an index past the end appends
InsertAt(lines, p, block) ==
  LET q == IF p > Len(lines) THEN Len(lines) ELSE p
  IN  SubSeq(lines, 1, q) \o block \o SubSeq(lines, q + 1, Len(lines))

\* The locals of one iteration of the loop of lines 346-525, in the shape of
\* Modify.  sorted(..., key=line) keeps vars_list, which is in line order.
SimModify(lines, vars_list) ==
  LET configurable_vars ==
        SelectSeq(vars_list, LAMBDA b : ~b.is_expression /\ ~LooksLikeExpression(b.value))
      has_argparse == \E i \in DOMAIN lines : ContainsImportOf(lines[i], <<"a", "r", "g", "p", "a", "r", "s", "e">>)
      has_sys == \E i \in DOMAIN lines : ContainsImportOf(lines[i], <<"s", "y", "s">>)
      start == IF lines # <<>> /\ StartsShebang(lines[1]) THEN 1 ELSE 0
      after_doc == SimSkipDocstring(lines, start)
      imports_to_add ==
        (IF has_argparse THEN <<>> ELSE <<Import(<<"a", "r", "g", "p", "a", "r", "s", "e">>)>>)
        \o (IF has_sys THEN <<>> ELSE <<Import(<<"s", "y", "s">>)>>)
      import_pos == IF imports_to_add = <<>> THEN after_doc ELSE SimSkipImports(lines, after_doc)
      import_block == IF imports_to_add = <<>> THEN <<>> ELSE imports_to_add \o <<Blank>>
      parser_code ==
        <<NlComment, ParserLine>>
        \o [i \in DOMAIN configurable_vars |->
              SimAddArgument(configurable_vars[i].name, Constant(configurable_vars[i].value))]
        \o <<ArgsLine>>
      inserted == InsertAt(lines, import_pos, import_block \o parser_code)
      offset == Len(import_block) + Len(parser_code)
      todo == SimToReplace(vars_list, 1, {},
                           {configurable_vars[i].name : i \in DOMAIN configurable_vars})
      out == [i \in DOMAIN inserted |->
                LET hits == {k \in DOMAIN todo : todo[k].line + offset = i}
                IN  IF hits = {} THEN inserted[i]
                    ELSE SimArgsVersion(inserted[i],
                                        todo[CHOOSE k \in hits : \A h \in hits : h <= k].name)]
  IN  IF configurable_vars = <<>>
      THEN [written |-> FALSE, read |-> lines, out |-> lines, insert_line |-> 0,
            line_offset |-> 0, todo |-> <<>>, inserted |-> lines]
      ELSE [written |-> TRUE, read |-> lines, out |-> out, insert_line |-> import_pos,
            line_offset |-> offset, todo |-> todo, inserted |-> inserted]

\* ------------------------------------------------- create_manager_script
\* json.dumps raises TypeError for a value that is no JSON type
RECURSIVE JsonSerializable(_)
JsonSerializable(value) ==
  CASE value.t \in {"int", "bool", "str", "float", "NoneType"} -> TRUE
    [] value.t \in {"list", "tuple", "dict", "item"} ->
         \A i \in DOMAIN value.e : JsonSerializable(value.e[i])
    [] OTHER -> FALSE

ManifestSerializable(config) ==
  \A i \in DOMAIN config : \A j \in DOMAIN config[i].val :
    JsonSerializable(config[i].val[j].val.value)

\* The syntax tree of the JSON text of a value, read as Python source: true,
\* false and null are names, a negative number is a negation.
RECURSIVE JsonNode(_)
JsonNode(value) ==
  CASE value.t = "bool" -> NameRef(IF value.i = 1 THEN "true" ELSE "false")
    [] value.t = "NoneType" -> NameRef("null")
    [] value.t \in {"int", "float"} ->
         IF value.i < 0 THEN UnaryOp("USub", Constant([value EXCEPT !.i = 0 - @]))
         ELSE Constant(value)
    [] value.t \in {"list", "tuple"} -> ListNode([j \in DOMAIN value.e |-> JsonNode(value.e[j])])
    [] value.t = "dict" -> DictNode([j \in DOMAIN value.e |-> JsonNode(value.e[j])])
    [] value.t = "item" -> ItemNode(Constant(value.e[1]), JsonNode(value.e[2]))
    [] OTHER -> Constant(value)

\* One entry of config_data as a Python value; a type name and a field name
\* are kept as one symbol each.
EntryValue(e) ==
  PyDict(<<PyItem(PyStr(<<"value">>), e.value), PyItem(PyStr(<<"type">>), PyStr(<<e.type>>)),
           PyItem(PyStr(<<"line">>), PyInt(e.line)), PyItem(PyStr(<<"arg">>), PyStr(e.arg))>>)

\* config_data as a Python value: file name -> variable name -> entry
ManifestValue(config) ==
  PyDict([i \in DOMAIN config |->
    PyItem(PyStr(<<config[i].key>>),
           PyDict([j \in DOMAIN config[i].val |->
                    PyItem(PyStr(config[i].val[j].key), EntryValue(config[i].val[j].val))]))])

\* the right-hand side of 'CONFIG = ' in the launcher
ConfigNode(config) == JsonNode(ManifestValue(config))

Indented(l, ind) == [l EXCEPT !.ind = ind]

\* The text of manager.py.  The lines up to 'CONFIG = {' are kept one for
\* one; the JSON text is shortened to one continuation line per file key and
\* the body of each later function to its docstring and first statements.
LauncherLines(config) ==
  <<Shebang, DocOpen, DocText, DocText, DocText, DocClose, Blank,
    Import(<<"s", "u", "b", "p", "r", "o", "c", "e", "s", "s">>),
    Import(<<"s", "y", "s">>),
    FromImport(<<"p", "a", "t", "h", "l", "i", "b">>), Blank, Blank,
    Def, Indented(Doc1, 4),
    Assign(<<"s", "c", "r", "i", "p", "t", "_", "d", "i", "r">>,
           AttributeNode("Path(__file__)", <<"p", "a", "r", "e", "n", "t">>), 4, FALSE),
    Blank, Indented(Comment, 4),
    Assign(<<"v", "e", "n", "v", "_", "p", "y", "t", "h", "o", "n">>,
           BinOp("Div", NameRef("script_dir"), Constant(PyStr(<<"p", "y", "t", "h", "o", "n">>))), 4, FALSE),
    Indented(IfHeader, 4), ExprStmt(8), Blank, Indented(Comment, 4), ExprStmt(4), Blank, Blank,
    Comment, AssignOpen(NameConfig, ConfigNode(config))>>
  \o [i \in DOMAIN config |-> Cont]
  \o <<Close, Blank, Blank,
       Def, Indented(Doc1, 4), ExprStmt(4), Blank, Blank,
       Def, Indented(Doc1, 4),
       Assign(<<"t", "y", "p", "e", "_", "h", "i", "n", "t">>, IfExpNode, 4, FALSE),
       ExprStmt(4), Blank, Blank,
       Def, Assign(<<"c", "o", "n", "f", "i", "g">>, CallNode("load_config"), 4, FALSE),
       Assign(NameArgs, ListNode(<<>>), 4, FALSE), ExprStmt(4), Blank, Blank,
       IfHeader, ExprStmt(4)>>

\* ----------------------------------------------------------- file names
FileA == "a.py"
FileB == "b.py"
ManagerPy == "manager.py"
FileNames == {FileA, FileB, ManagerPy}

\* -------------------------------------------- the launcher, manager.py
\* What the interpreter makes of the text after 'CONFIG = ' when the launcher
\* is started: the JSON tokens true, false and null are names that are not
\* defined, and the statement raises NameError.
NameError == Value("<NameError>", 0, <<>>, <<>>)
IsNameError(value) == value.t = "<NameError>"

RECURSIVE PyEval(_)
PyEval(nd) ==
  CASE nd.node = "Constant" -> nd.val
    [] nd.node = "Name" -> NameError
    [] nd.node = "UnaryOp" ->
         LET operand == PyEval(nd.elts[1])
         IN  IF IsNameError(operand) THEN NameError ELSE [operand EXCEPT !.i = 0 - @]
    [] OTHER ->
         LET vals == [i \in DOMAIN nd.elts |-> PyEval(nd.elts[i])]
         IN  IF \E i \in DOMAIN vals : IsNameError(vals[i]) THEN NameError
             ELSE IF nd.node = "List" THEN PyList(vals)
             ELSE IF nd.node = "item" THEN PyItem(vals[1], vals[2])
             ELSE PyDict(vals)

\* the module-level statement 'CONFIG = ...' of a launcher file
ConfigStatement(lines) ==
  lines[CHOOSE i \in DOMAIN lines : lines[i].k = "assignopen" /\ lines[i].n = NameConfig]

\* d[key] for a dict value whose keys are kept
ValGet(d, key) == d.e[CHOOSE i \in DOMAIN d.e : d.e[i].e[1] = key].e[2]

Field(entry, name) == ValGet(entry, PyStr(<<name>>))

\* sorted(config.keys()): the file names in ascending order
ScriptList(config) ==
  SelectSeq(<<FileA, FileB, ManagerPy>>,
            LAMBDA f : \E i \in DOMAIN config.e : config.e[i].e[1] = PyStr(<<f>>))

\* sorted(script_config.items(), key=lambda x: x[1]['line']): a stable sort
RECURSIVE InsertByLine(_, _)
InsertByLine(sorted, item) ==
  IF sorted = <<>> THEN <<item>>
  ELSE IF Field(item.e[2], "line").i < Field(Head(sorted).e[2], "line").i
       THEN <<item>> \o sorted
       ELSE <<Head(sorted)>> \o InsertByLine(Tail(sorted), item)

RECURSIVE SortedByLine(_)
SortedByLine(items) ==
  IF items = <<>> THEN <<>>
  ELSE InsertByLine(SortedByLine(SubSeq(items, 1, Len(items) - 1)), items[Len(items)])

TrueTokens == {<<"t", "r", "u", "e">>, <<"1">>, <<"y", "e", "s">>, <<"y">>}
FalseTokens == {<<"f", "a", "l", "s", "e">>, <<"0">>, <<"n", "o">>, <<"n">>}

\* get_user_input of the launcher; user_input is the stripped line
get_user_input(default_value, var_type, user_input) ==
  IF user_input = <<>> THEN default_value
  ELSE IF var_type = "int" THEN
    IF IsEvalError(ParseInt(user_input)) THEN default_value ELSE ParseInt(user_input)
  ELSE IF var_type = "float" THEN
    IF IsEvalError(ParseFloat(user_input)) THEN default_value ELSE ParseFloat(user_input)
  ELSE IF var_type = "bool" THEN
    IF Lower(user_input) \in TrueTokens THEN PyBool(TRUE)
    ELSE IF Lower(user_input) \in FalseTokens THEN PyBool(FALSE)
    ELSE default_value
  ELSE PyStr(user_input)

\* a != b of Python: numbers compare by their number, other values by type
\* and content
Numeric(value) == value.t \in {"bool", "int", "float"}
Tenths(value) == IF value.t = "float" THEN value.i ELSE 10 * value.i
PyNotEqual(a, b) ==
  IF Numeric(a) /\ Numeric(b) THEN Tenths(a) # Tenths(b) ELSE a # b

\* a launcher that passes every resolved value
ArgsAlways(args, arg_flag, default_value, user_value) ==
  args \o <<arg_flag, Str(user_value)>>

\* the argument list after one prompt of main
ArgsAfter(args, arg_flag, default_value, user_value) ==
  IF PyNotEqual(user_value, default_value)
  THEN args \o <<arg_flag, Str(user_value)>> ELSE args

\* The text of manager.py as sim_manager.py writes it: the launcher of
\* dev_tools.py without the function get_python_executable.
SimLauncherLines(config) ==
  <<Shebang, DocOpen, DocText, DocText, DocText, DocClose, Blank,
    Import(<<"s", "u", "b", "p", "r", "o", "c", "e", "s", "s">>),
    Import(<<"s", "y", "s">>),
    FromImport(<<"p", "a", "t", "h", "l", "i", "b">>), Blank, Blank,
    Comment, AssignOpen(NameConfig, ConfigNode(config))>>
  \o [i \in DOMAIN config |-> Cont]
  \o <<Close, Blank, Blank,
       Def, Indented(Doc1, 4), ExprStmt(4), Blank, Blank,
       Def, Indented(Doc1, 4),
       Assign(<<"t", "y", "p", "e", "_", "h", "i", "n", "t">>, IfExpNode, 4, FALSE),
       ExprStmt(4), Blank, Blank,
       Def, Assign(<<"c", "o", "n", "f", "i", "g">>, CallNode("load_config"), 4, FALSE),
       Assign(NameArgs, ListNode(<<>>), 4, FALSE), ExprStmt(4), Blank, Blank,
       IfHeader, ExprStmt(4)>>

\* ==================================================== the state machine
VARIABLES
  files,           \* file name -> the lines of the file
  present,         \* the names of the files that exist in the directory
  pc,              \* position in extract_and_link_fields_command
  idx,             \* 1-based position of the running for loop in python_files
  python_files,    \* sorted(directory.glob("*.py"))
  extracted_vars,  \* dict file name -> bindings
  config_data,     \* dict file name -> dict name -> entry
  modified,        \* the files for which "Modified" was printed in this run
  mods,            \* dict file name -> locals of this run's call of the rewriter
  before,          \* the directory content when the running command started
  runs,            \* number of commands started
  launcher,        \* the running or finished process of manager.py
  call,            \* the last call of a conversion function made on its own
  pull             \* the running or finished pull_command on the directory

vars == <<files, present, pc, idx, python_files, extracted_vars, config_data,
          modified, mods, before, runs, launcher, call, pull>>

\* pull_command on the directory, a git repository: its position, whether
\* manager.py existed when it started, and the content of the tracked files
\* in the commit that is checked out (manager.py is not tracked)
PullOff(head, tracked) ==
  [pc |-> "off", had_manager |-> FALSE, head |-> head, tracked |-> tracked]

\* no conversion function was called
NoCall == [fn |-> "none", value |-> PyNone, text |-> <<>>, result |-> PyNone]

\* The launcher process: its position, the value of CONFIG, the selected
\* script, the entries still to be prompted for, the argument list, the
\* prompts answered so far, the return code of the target (-1: not run),
\* its own exit code (-1: none), and whether run_command started it and the
\* exit code of run_command.
LauncherOff ==
  [pc |-> "off", config |-> PyNone, script |-> "", pending |-> <<>>, args |-> <<>>,
   resolved |-> <<>>, child |-> -1, exit |-> -1, via_run |-> FALSE, run_exit |-> -1]

\* sorted() of the file names
SortedNames(S) ==
  SelectSeq(<<FileA, FileB, ManagerPy>>, LAMBDA f : f \in S)

\* ------------------------------------------------------ initial directories
Abc == <<"a", "b", "c">>
ConstInt == Constant(PyInt(10))
BinOpNode == BinOp("Mult", NameRef("X"), Constant(PyInt(2)))

\* the right-hand sides of the assignments a user file may hold
RichNodes ==
  { ConstInt, Constant(PyBool(TRUE)), Constant(PyStr(Abc)), Constant(PyFloat(15)),
    Constant(PyNone), Constant(PyBytes(Abc)),
    UnaryOp("USub", Constant(PyInt(5))), UnaryOp("USub", NameRef("y")),
    UnaryOp("Not", Constant(PyBool(TRUE))),
    ListNode(<<Constant(PyInt(1)), Constant(PyInt(2))>>), ListNode(<<NameRef("y")>>),
    TupleNode(<<Constant(PyInt(1)), Constant(PyInt(2))>>),
    TupleNode(<<NameRef("y"), NameRef("z")>>), BareTupleNode(<<NameRef("y"), NameRef("z")>>),
    DictNode(<<Constant(PyInt(1))>>), DictNode(<<NameRef("y")>>),
    BinOpNode, CallNode("foo"), AttributeNode("math", <<"p", "i">>), NameRef("y"),
    IfExpNode, JoinedStrNode, ListCompNode }

ModArgparse == <<"a", "r", "g", "p", "a", "r", "s", "e">>
ModSys == <<"s", "y", "s">>

\* WIDTH = 10 followed by HEIGHT = WIDTH * 2
WidthLine == Assign(NameWidth, ConstInt, 0, FALSE)
HeightLine == Assign(NameHeight, BinOp("Mult", NameRef("WIDTH"), Constant(PyInt(2))), 0, FALSE)

RichStmts ==
  {<<Assign(NameX, nd, 0, FALSE)>> : nd \in RichNodes}
  \cup { <<WidthLine, HeightLine>> }
  \cup { <<Import(ModArgparse), Import(ModSys), Assign(NameX, ConstInt, 0, FALSE)>>,
         <<Import(ModArgparse), Assign(NameX, ConstInt, 0, FALSE)>>,
         <<Import(ModSys), Assign(NameX, ConstInt, 0, FALSE)>> }
  \cup { <<MultiAssign(NameX, ConstInt)>>, <<TupleAssign(NameX, ConstInt)>>,
         <<Assign(NamePriv, ConstInt, 0, FALSE)>>,
         <<Assign(NameMaxSpeed, ConstInt, 0, FALSE)>>, <<Undecodable>> }

SmallStmts ==
  { <<Assign(NameX, ConstInt, 0, FALSE)>>,
    <<Assign(NameX, ConstInt, 0, TRUE)>>,
    <<Assign(NameX, BinOpNode, 0, FALSE)>>,
    <<Assign(NameY, Constant(PyBool(TRUE)), 0, FALSE)>>,
    <<Assign(NameY, CallNode("foo"), 0, FALSE)>>,
    <<Def, Assign(NameX, Constant(PyInt(5)), 4, FALSE)>>,
    <<AssignOpen(NameX, ListNode(<<Constant(PyInt(1)), Constant(PyInt(2))>>)), Cont, Cont, Close>>,
    <<ExprStmt(0)>>,
    <<SyntaxErr>> }

ModOs == <<"o", "s">>
Headers ==
  { <<>>,
    <<Shebang>>,
    <<Shebang, DocOpen, DocText, DocClose>>,
    <<Doc1, Import(ModOs)>>,
    <<Import(ModOs), FromImport(ModOs)>>,
    <<ImportAssign(NameX, ConstInt)>>,
    <<ImportAssign(NameX, ConstInt), Import(ModOs)>>,
    <<FromOpen, Cont, Close>>,
    <<Shebang, Doc1, Blank, Import(ModOs), Blank>> }

Bodies(n) == {Flatten(ss) : ss \in SeqsUpTo(SmallStmts, n)}

UserFiles ==
  {h \o b : h \in Headers, b \in Bodies(MaxBody)}
  \cup {r \o b : r \in RichStmts, b \in Bodies(MaxBody - 1)}

ThreeLiterals ==
  <<Assign(NameX, ConstInt, 0, FALSE), Assign(NameY, Constant(PyStr(Abc)), 0, FALSE),
    Assign(NameZ, Constant(PyBool(FALSE)), 0, FALSE)>>

Init ==
  /\ \E a \in UserFiles, pa \in BOOLEAN, pb \in BOOLEAN :
       /\ files = [f \in FileNames |->
                     IF f = FileA /\ pa THEN a
                     ELSE IF f = FileB /\ pb THEN ThreeLiterals ELSE <<>>]
       /\ present = (IF pa THEN {FileA} ELSE {}) \cup (IF pb THEN {FileB} ELSE {})
       /\ (~pa => a = <<>>)
  /\ pc = "idle"
  /\ idx = 0
  /\ python_files = <<>>
  /\ extracted_vars = <<>>
  /\ config_data = <<>>
  /\ modified = {}
  /\ mods = <<>>
  /\ before = files
  /\ runs = 0
  /\ launcher = LauncherOff
  /\ call = NoCall
  /\ pull = PullOff(files, present)

\* ------------------------------------------------------------- the command
\* lines 278-295: the directory is listed; without files the command returns
Start ==
  /\ pc \in {"idle", "done", "crashed"}
  /\ launcher.pc \in {"off", "exited"}
  /\ launcher' = LauncherOff
  /\ pull.pc \in {"off", "finished"}
  /\ UNCHANGED <<call, pull>>
  /\ runs < MaxRuns
  /\ runs' = runs + 1
  /\ python_files' = SortedNames(present)
  /\ pc' = IF present = {} THEN "done" ELSE "extract"
  /\ idx' = 1
  /\ extracted_vars' = <<>>
  /\ config_data' = <<>>
  /\ modified' = {}
  /\ mods' = <<>>
  /\ before' = files
  /\ UNCHANGED <<files, present>>

\* an extraction loop that stops at the first file whose read or parse fails
ExtractFileStopsAtFailure ==
  /\ pc = "extract"
  /\ LET f == python_files[idx]
         failed == ~Decodes(files[f]) \/ ~Parses(files[f])
         file_vars == _extract_variables_from_file(files[f])
         ev == IF file_vars # <<>> THEN DictSet(extracted_vars, f, file_vars) ELSE extracted_vars
     IN  /\ extracted_vars' = ev
         /\ idx' = idx + 1
         /\ pc' = IF idx < Len(python_files) /\ ~failed THEN "extract"
                  ELSE IF ev = <<>> THEN "done" ELSE "prepare"
  /\ UNCHANGED <<files, present, python_files, config_data, modified, mods, before, runs, launcher, call, pull>>

\* lines 300-308: one iteration of the extraction loop; after the last one
\* the command returns when nothing was extracted
ExtractFile ==
  /\ pc = "extract"
  /\ LET f == python_files[idx]
         file_vars == _extract_variables_from_file(files[f])
         ev == IF file_vars # <<>> THEN DictSet(extracted_vars, f, file_vars) ELSE extracted_vars
     IN  /\ extracted_vars' = ev
         /\ idx' = idx + 1
         /\ pc' = IF idx < Len(python_files) THEN "extract"
                  ELSE IF ev = <<>> THEN "done" ELSE "prepare"
  /\ UNCHANGED <<files, present, python_files, config_data, modified, mods, before, runs, launcher, call, pull>>

\* line 311
PrepareConfig ==
  /\ pc = "prepare"
  /\ config_data' = _prepare_config_data(extracted_vars)
  /\ pc' = "modify"
  /\ idx' = 1
  /\ UNCHANGED <<files, present, python_files, extracted_vars, modified, mods, before, runs, launcher, call, pull>>

\* lines 316-321: one iteration of the modification loop
ModifyFile ==
  /\ pc = "modify"
  /\ LET f == python_files[idx]
     IN  IF f \notin DictKeys(extracted_vars)
         THEN UNCHANGED <<files, modified, mods>>
         ELSE LET m == Modify(files[f], DictGet(extracted_vars, f))
              IN  /\ mods' = DictSet(mods, f, m)
                  /\ files' = IF m.written THEN [files EXCEPT ![f] = WriteLines(m.out)] ELSE files
                  /\ modified' = IF m.written THEN modified \cup {f} ELSE modified
  /\ idx' = idx + 1
  /\ pc' = IF idx < Len(python_files) THEN "modify" ELSE "create"
  /\ UNCHANGED <<present, python_files, extracted_vars, config_data, before, runs, launcher, call, pull>>

\* lines 341-344 and create_manager_script: json.dumps raises before the
\* launcher file is opened
CreateManager ==
  /\ pc = "create"
  /\ IF ManifestSerializable(config_data)
     THEN /\ files' = [files EXCEPT ![ManagerPy] = LauncherLines(config_data)]
          /\ present' = present \cup {ManagerPy}
          /\ pc' = "done"
     ELSE /\ pc' = "crashed"
          /\ UNCHANGED <<files, present>>
  /\ UNCHANGED <<idx, python_files, extracted_vars, config_data, modified, mods, before, runs, launcher, call, pull>>

\* ---------------------------- the command of sim_manager.py, lines 238-309
\* lines 238-258
SimStart ==
  /\ pc \in {"idle", "done", "crashed"}
  /\ launcher.pc \in {"off", "exited"}
  /\ launcher' = LauncherOff
  /\ pull.pc \in {"off", "finished"}
  /\ UNCHANGED <<call, pull>>
  /\ runs < MaxRuns
  /\ runs' = runs + 1
  /\ python_files' = SortedNames(present)
  /\ pc' = IF present = {} THEN "done" ELSE "sim_extract"
  /\ idx' = 1
  /\ extracted_vars' = <<>>
  /\ config_data' = <<>>
  /\ modified' = {}
  /\ mods' = <<>>
  /\ before' = files
  /\ UNCHANGED <<files, present>>

\* lines 260-309: one iteration of the extraction loop
SimExtractFile ==
  /\ pc = "sim_extract"
  /\ LET f == python_files[idx]
         file_vars == SimExtract(files[f])
         ev == IF file_vars # <<>> THEN DictSet(extracted_vars, f, file_vars) ELSE extracted_vars
     IN  /\ extracted_vars' = ev
         /\ idx' = idx + 1
         /\ pc' = IF idx < Len(python_files) THEN "sim_extract"
                  ELSE IF ev = <<>> THEN "done" ELSE "sim_prepare"
  /\ UNCHANGED <<files, present, python_files, config_data, modified, mods, before, runs, launcher, call, pull>>

\* lines 311-341
SimPrepareConfig ==
  /\ pc = "sim_prepare"
  /\ config_data' = SimPrepareConfigData(extracted_vars)
  /\ pc' = "sim_modify"
  /\ idx' = 1
  /\ UNCHANGED <<files, present, python_files, extracted_vars, modified, mods, before, runs, launcher, call, pull>>

\* lines 346-525: one iteration of the modification loop
SimModifyFile ==
  /\ pc = "sim_modify"
  /\ LET f == python_files[idx]
     IN  IF f \notin DictKeys(extracted_vars)
         THEN UNCHANGED <<files, modified, mods>>
         ELSE LET m == SimModify(files[f], DictGet(extracted_vars, f))
              IN  /\ mods' = DictSet(mods, f, m)
                  /\ files' = IF m.written THEN [files EXCEPT ![f] = WriteLines(m.out)] ELSE files
                  /\ modified' = IF m.written THEN modified \cup {f} ELSE modified
  /\ idx' = idx + 1
  /\ pc' = IF idx < Len(python_files) THEN "sim_modify" ELSE "sim_create"
  /\ UNCHANGED <<present, python_files, extracted_vars, config_data, before, runs, launcher, call, pull>>

\* lines 549-552 and create_manager_script of sim_manager.py
SimCreateManager ==
  /\ pc = "sim_create"
  /\ IF ManifestSerializable(config_data)
     THEN /\ files' = [files EXCEPT ![ManagerPy] = SimLauncherLines(config_data)]
          /\ present' = present \cup {ManagerPy}
          /\ pc' = "done"
     ELSE /\ pc' = "crashed"
          /\ UNCHANGED <<files, present>>
  /\ UNCHANGED <<idx, python_files, extracted_vars, config_data, modified, mods, before, runs, launcher, call, pull>>

Next ==
  \/ Start \/ ExtractFile \/ PrepareConfig \/ ModifyFile \/ CreateManager
  \/ SimStart \/ SimExtractFile \/ SimPrepareConfig \/ SimModifyFile \/ SimCreateManager

Spec == Init /\ [][Next]_vars

\* ------------------------------------ files that cannot be written
\* open(py_file, 'w') raises (a file without write permission): the locals
\* are those of the call, nothing is written, and the except clause of
\* dev_tools.py 267-269 / sim_manager.py 522-525 goes on with the next file
WriteFails(m) == [m EXCEPT !.written = FALSE]

\* dev_tools.py lines 316-321: an iteration in which writing the file raises
ModifyFileWriteFails ==
  /\ pc = "modify"
  /\ python_files[idx] \in DictKeys(extracted_vars)
  /\ LET f == python_files[idx]
         m == Modify(files[f], DictGet(extracted_vars, f))
     IN  /\ m.written
         /\ mods' = DictSet(mods, f, WriteFails(m))
  /\ idx' = idx + 1
  /\ pc' = IF idx < Len(python_files) THEN "modify" ELSE "create"
  /\ UNCHANGED <<files, present, python_files, extracted_vars, config_data, modified, before,
                 runs, launcher, call, pull>>

\* sim_manager.py lines 346-525: an iteration in which writing the file raises
SimModifyFileWriteFails ==
  /\ pc = "sim_modify"
  /\ python_files[idx] \in DictKeys(extracted_vars)
  /\ LET f == python_files[idx]
         m == SimModify(files[f], DictGet(extracted_vars, f))
     IN  /\ m.written
         /\ mods' = DictSet(mods, f, WriteFails(m))
  /\ idx' = idx + 1
  /\ pc' = IF idx < Len(python_files) THEN "sim_modify" ELSE "sim_create"
  /\ UNCHANGED <<files, present, python_files, extracted_vars, config_data, modified, before,
                 runs, launcher, call, pull>>

\* the directories on which failures of single files are exercised
FailureFiles ==
  { <<Assign(NameX, ConstInt, 0, FALSE)>>,
    <<Assign(NameX, ConstInt, 0, FALSE), SyntaxErr>>,
    <<Undecodable>>,
    <<Assign(NameX, ConstInt, 0, FALSE), Undecodable>>,
    <<Import(ModOs), Assign(NameX, BinOpNode, 0, FALSE)>>,
    <<Import(ModOs), Assign(NameY, Constant(PyStr(Abc)), 0, TRUE), ExprStmt(0)>>,
    <<DocOpen, Assign(NameX, ConstInt, 0, FALSE)>>,
    <<Assign(NameX, Constant(PyBytes(Abc)), 0, FALSE)>> }

FailureInit ==
  /\ \E a \in FailureFiles, b \in FailureFiles \cup {<<>>} :
       /\ files = [f \in FileNames |-> IF f = FileA THEN a ELSE IF f = FileB THEN b ELSE <<>>]
       /\ present = {FileA} \cup (IF b = <<>> THEN {} ELSE {FileB})
  /\ pc = "idle"
  /\ idx = 0
  /\ python_files = <<>>
  /\ extracted_vars = <<>>
  /\ config_data = <<>>
  /\ modified = {}
  /\ mods = <<>>
  /\ before = files
  /\ runs = 0
  /\ launcher = LauncherOff
  /\ call = NoCall
  /\ pull = PullOff(files, present)

FailureNext == Next \/ ModifyFileWriteFails \/ SimModifyFileWriteFails

FailureSpec == FailureInit /\ [][FailureNext]_vars

\* ------------------------------------------------------- pull_command
\* project_management.py lines 191-275 for the one repository that the
\* directory is.  uv sync of _initialize_project does not touch the files of
\* the model.
\* lines 191-220: the command starts and reaches the repository
PullStart ==
  /\ pc \in {"idle", "done", "crashed"}
  /\ launcher.pc \in {"off", "exited"}
  /\ pull.pc \in {"off", "finished"}
  /\ runs < MaxRuns
  /\ pull' = [pull EXCEPT !.pc = "reset", !.had_manager = ManagerPy \in present]
  /\ UNCHANGED <<files, present, pc, idx, python_files, extracted_vars, config_data,
                 modified, mods, before, runs, launcher, call>>

\* lines 222-235: git reset --hard puts the tracked files back to the commit
\* that is checked out; when it fails the repository is left as it is
PullReset ==
  /\ pull.pc = "reset"
  /\ \E ok \in BOOLEAN :
       IF ok
       THEN /\ files' = [f \in FileNames |-> IF f \in pull.tracked THEN pull.head[f] ELSE files[f]]
            /\ present' = present \cup pull.tracked
            /\ pull' = [pull EXCEPT !.pc = "remove"]
       ELSE /\ pull' = [pull EXCEPT !.pc = "finished"]
            /\ UNCHANGED <<files, present>>
  /\ UNCHANGED <<pc, idx, python_files, extracted_vars, config_data, modified, mods, before,
                 runs, launcher, call>>

\* lines 237-244: manager.py is removed when it exists; a failure of unlink
\* is a warning
PullRemoveManager ==
  /\ pull.pc = "remove"
  /\ \E removed \in BOOLEAN :
       IF ManagerPy \in present /\ removed
       THEN /\ files' = [files EXCEPT ![ManagerPy] = <<>>]
            /\ present' = present \ {ManagerPy}
       ELSE UNCHANGED <<files, present>>
  /\ pull' = [pull EXCEPT !.pc = "pull"]
  /\ UNCHANGED <<pc, idx, python_files, extracted_vars, config_data, modified, mods, before,
                 runs, launcher, call>>

\* what a.py holds in a commit that git pull brings
PulledFiles == { <<Assign(NameY, Constant(PyInt(7)), 0, FALSE)>>, <<ExprStmt(0)>> }

\* lines 246-273: git pull fails, or it succeeds (with or without new
\* commits) and _initialize_project calls extract_and_link_fields_command,
\* which lists the directory (dev_tools.py 278-295)
PullPull ==
  /\ pull.pc = "pull"
  /\ \/ /\ pull' = [pull EXCEPT !.pc = "finished"]
        /\ UNCHANGED <<files, present, pc, idx, python_files, extracted_vars, config_data,
                       modified, mods, before, runs>>
     \/ \E updated \in {files[FileA]} \cup PulledFiles :
          LET pulled == [files EXCEPT ![FileA] = updated]
          IN  /\ files' = pulled
              /\ pull' = [pull EXCEPT !.pc = "init", !.head = [@ EXCEPT ![FileA] = updated]]
              /\ runs' = runs + 1
              /\ python_files' = SortedNames(present)
              /\ pc' = IF present = {} THEN "done" ELSE "extract"
              /\ idx' = 1
              /\ extracted_vars' = <<>>
              /\ config_data' = <<>>
              /\ modified' = {}
              /\ mods' = <<>>
              /\ before' = pulled
              /\ UNCHANGED present
  /\ UNCHANGED <<launcher, call>>

\* project_management.py 11-26 and 266-275: _run_dev_extract returns, also
\* when the command raised, and pull_command prints its summary
PullFinish ==
  /\ pull.pc = "init"
  /\ pc \in {"done", "crashed"}
  /\ pull' = [pull EXCEPT !.pc = "finished"]
  /\ UNCHANGED <<files, present, pc, idx, python_files, extracted_vars, config_data,
                 modified, mods, before, runs, launcher, call>>

\* the repositories on which pull_command is exercised
PullRepositories ==
  { <<Assign(NameX, ConstInt, 0, FALSE)>>,
    ThreeLiterals,
    <<Import(ModOs), Assign(NameX, ConstInt, 0, TRUE), ExprStmt(0)>>,
    <<Assign(NameX, Constant(PyBytes(Abc)), 0, FALSE)>>,
    <<ExprStmt(0)>> }

PullInit ==
  /\ \E a \in PullRepositories :
       /\ files = [f \in FileNames |-> IF f = FileA THEN a ELSE <<>>]
       /\ present = {FileA}
  /\ pc = "idle"
  /\ idx = 0
  /\ python_files = <<>>
  /\ extracted_vars = <<>>
  /\ config_data = <<>>
  /\ modified = {}
  /\ mods = <<>>
  /\ before = files
  /\ runs = 0
  /\ launcher = LauncherOff
  /\ call = NoCall
  /\ pull = PullOff(files, present)

PullNext ==
  \/ Next
  \/ PullStart \/ PullReset \/ PullRemoveManager \/ PullPull \/ PullFinish

PullSpec == PullInit /\ [][PullNext]_vars

\* ------------------------------------------- running the launcher
\* what the user types at a prompt, stripped
Choices == {<<"q">>, <<"1">>, <<"2">>, <<"9">>, <<"x">>}
Tokens ==
  { <<>>, <<"7">>, <<"1", "0">>, <<"-", "5">>, <<"a", "b", "c">>, <<"Y", "e", "s">>,
    <<"n", "o">>, <<"m", "a", "y", "b", "e">>, <<"1", ".", "5">> }
\* the return codes of a target script
ExitCodes == {0, 1, 2}

CommandUnchanged ==
  UNCHANGED <<files, present, pc, idx, python_files, extracted_vars, config_data,
              modified, mods, before, runs, call, pull>>

\* the module level of manager.py up to the call of main: CONFIG is bound
Started(via_run) ==
  LET cfg == PyEval(ConfigStatement(files[ManagerPy]).v)
  IN  IF IsNameError(cfg)
      THEN [LauncherOff EXCEPT !.pc = "exited", !.exit = 1, !.config = cfg, !.via_run = via_run]
      ELSE [LauncherOff EXCEPT !.pc = "select", !.config = cfg, !.via_run = via_run]

CanStartLauncher ==
  /\ pc \in {"idle", "done", "crashed"}
  /\ ManagerPy \in present
  /\ launcher.pc \in {"off", "exited"}
  /\ launcher.via_run => launcher.run_exit # -1

\* the user runs manager.py
LauncherStart ==
  /\ CanStartLauncher
  /\ launcher' = Started(FALSE)
  /\ CommandUnchanged

\* execution.py, run_command lines 29-49: manager.py is run as a subprocess;
\* when the subprocess cannot be started run_command exits with 1
RunCommand ==
  /\ CanStartLauncher
  /\ \E spawned \in BOOLEAN :
       launcher' = IF spawned THEN Started(TRUE)
                   ELSE [LauncherOff EXCEPT !.pc = "exited", !.via_run = TRUE, !.run_exit = 1]
  /\ CommandUnchanged

\* main, the selection loop: one line of input
LauncherSelect ==
  /\ launcher.pc = "select"
  /\ \E choice \in Choices :
       LET script_list == ScriptList(launcher.config)
           choice_num == ParseInt(choice)
       IN  IF Lower(choice) = <<"q">>
           THEN launcher' = [launcher EXCEPT !.pc = "exited", !.exit = 0]
           ELSE IF ~IsEvalError(choice_num) /\ 1 <= choice_num.i /\ choice_num.i <= Len(script_list)
           THEN LET selected_script == script_list[choice_num.i]
                    script_config == ValGet(launcher.config, PyStr(<<selected_script>>))
                IN  launcher' = [launcher EXCEPT !.pc = "prompt", !.script = selected_script,
                                                 !.pending = SortedByLine(script_config.e)]
           ELSE launcher' = launcher
  /\ CommandUnchanged

\* main, one iteration of the loop over the entries
LauncherPrompt ==
  /\ launcher.pc = "prompt"
  /\ launcher.pending # <<>>
  /\ \E user_input \in Tokens :
       LET var_info == Head(launcher.pending).e[2]
           default_value == Field(var_info, "value")
           var_type == Field(var_info, "type").s[1]
           arg_flag == Field(var_info, "arg").s
           user_value == get_user_input(default_value, var_type, user_input)
       IN  launcher' =
             [launcher EXCEPT
                !.pending = Tail(@),
                !.args = ArgsAfter(@, arg_flag, default_value, user_value),
                !.resolved = Append(@, [item |-> Head(launcher.pending),
                                        token |-> user_input, value |-> user_value])]
  /\ CommandUnchanged

\* main, from 'Execute the script' to its end: the target runs and returns
\* a code, then main returns; when the target cannot be started main exits
\* with 1
LauncherExecute ==
  /\ launcher.pc = "prompt"
  /\ launcher.pending = <<>>
  /\ \/ \E c \in ExitCodes :
          launcher' = [launcher EXCEPT !.pc = "exited", !.child = c, !.exit = 0]
     \/ launcher' = [launcher EXCEPT !.pc = "exited", !.exit = 1]
  /\ CommandUnchanged

\* run_command line 45: sys.exit(result.returncode)
RunCommandExit ==
  /\ launcher.pc = "exited"
  /\ launcher.via_run
  /\ launcher.run_exit = -1
  /\ launcher' = [launcher EXCEPT !.run_exit = launcher.exit]
  /\ CommandUnchanged

\* the directories on which the launcher is exercised
LauncherFiles ==
  { <<Assign(NameX, ConstInt, 0, FALSE), Assign(NameY, Constant(PyStr(Abc)), 0, FALSE)>>,
    ThreeLiterals,
    <<Assign(NameX, Constant(PyFloat(15)), 0, FALSE)>>,
    <<Import(ModOs), Assign(NameX, UnaryOp("USub", Constant(PyInt(5))), 0, FALSE),
      Assign(NameMaxSpeed, ConstInt, 0, FALSE)>>,
    <<Assign(NameX, ListNode(<<Constant(PyInt(1)), Constant(PyInt(2))>>), 0, FALSE)>>,
    <<Assign(NameY, Constant(PyInt(7)), 0, FALSE), Assign(NameX, ConstInt, 0, FALSE),
      Assign(NameY, Constant(PyInt(8)), 0, FALSE)>> }

LauncherInit ==
  /\ \E a \in LauncherFiles, pb \in BOOLEAN :
       /\ files = [f \in FileNames |->
                     IF f = FileA THEN a
                     ELSE IF f = FileB /\ pb THEN <<Assign(NameZ, Constant(PyInt(7)), 0, FALSE)>>
                     ELSE <<>>]
       /\ present = {FileA} \cup (IF pb THEN {FileB} ELSE {})
  /\ pc = "idle"
  /\ idx = 0
  /\ python_files = <<>>
  /\ extracted_vars = <<>>
  /\ config_data = <<>>
  /\ modified = {}
  /\ mods = <<>>
  /\ before = files
  /\ runs = 0
  /\ launcher = LauncherOff
  /\ call = NoCall
  /\ pull = PullOff(files, present)

LauncherNext ==
  \/ Next
  \/ LauncherStart \/ RunCommand \/ LauncherSelect \/ LauncherPrompt \/ LauncherExecute
  \/ RunCommandExit

LauncherSpec == LauncherInit /\ [][LauncherNext]_vars

\* ============================================================ the claims
\* ---- vocabulary of the claims
\* the calls of the rewriter made so far in the running command
Calls == {mods[i] : i \in DOMAIN mods}
Rewritten == {c \in Calls : c.val.written}

\* the file as it is on disk after the call
Written(m) == WriteLines(m.out)

\* number of physical lines that the call added to the file
AddedLines(m) == Len(Written(m)) - Len(m.read)

\* where original line L (1-based) is expected in the written file: lines
\* after the insertion point move down by the inserted lines
ShiftedPos(m, L) == IF L > m.insert_line THEN L + AddedLines(m) ELSE L

BindingsOf(f) == IF f \in DictKeys(extracted_vars) THEN DictGet(extracted_vars, f) ELSE <<>>

ExpressionLinesOf(f) == {b.line : b \in {x \in Range(BindingsOf(f)) : x.is_expression}}
LiteralLinesOf(f) == {b.line : b \in {x \in Range(BindingsOf(f)) : ~x.is_expression}}

\* the original line (1-based) held by the element at 0-based index i of the
\* list after the scaffold was spliced in; 0 for an element of the scaffold
OriginOf(m, i) ==
  IF i < m.insert_line THEN i + 1
  ELSE IF i < m.insert_line + m.line_offset THEN 0
  ELSE i - m.line_offset + 1

\* C1: in every rewritten file, the line of every Expression binding is found
\* unchanged at its original position, moved down only by the inserted
\* scaffold lines, also when the same name has a Literal binding.
C1_ExpressionLinesUnchanged ==
  \A c \in Rewritten :
    \A L \in ExpressionLinesOf(c.key) :
      /\ ShiftedPos(c.val, L) <= Len(Written(c.val))
      /\ Written(c.val)[ShiftedPos(c.val, L)] = c.val.read[L]

\* C2: the rewriter changes only the scaffold block and the lines of the
\* module-level Literal bindings; every other original line, those in
\* function bodies included, is found unchanged in the written file.
C2_OnlyLiteralLinesChange ==
  \A c \in Rewritten :
    \A L \in (1..Len(c.val.read)) \ LiteralLinesOf(c.key) :
      /\ ShiftedPos(c.val, L) <= Len(Written(c.val))
      /\ Written(c.val)[ShiftedPos(c.val, L)] = c.val.read[L]

\* ---- the insertion point that the specification asks for
\* The leading lines of a file: blank and comment lines, the interpreter
\* directive, the module docstring, then the run of import statements.  The
\* result is [pro, imp]: the last line of directive and docstring, and the
\* last line of the last import statement of the run (0 when there is none).
RECURSIVE LeadFrom(_, _, _, _, _)
LeadFrom(lines, i, mode, pro, imp) ==
  IF i > Len(lines) THEN [pro |-> pro, imp |-> imp]
  ELSE LET l == lines[i]
       IN  CASE mode = "doc" ->
                  IF QuoteCount(l) = 1 THEN LeadFrom(lines, i + 1, "top", i, imp)
                  ELSE LeadFrom(lines, i + 1, "doc", pro, imp)
             [] mode = "bracket" ->
                  IF l.k = "close" THEN LeadFrom(lines, i + 1, "top", pro, i)
                  ELSE LeadFrom(lines, i + 1, "bracket", pro, imp)
             [] OTHER ->
                  IF l.k \in {"blank", "comment"} THEN LeadFrom(lines, i + 1, mode, pro, imp)
                  ELSE IF l.k = "shebang" THEN
                    LeadFrom(lines, i + 1, mode, IF i = 1 THEN 1 ELSE pro, imp)
                  ELSE IF l.k = "doc1" /\ imp = 0 THEN LeadFrom(lines, i + 1, mode, i, imp)
                  ELSE IF l.k = "docopen" /\ imp = 0 THEN LeadFrom(lines, i + 1, "doc", pro, imp)
                  ELSE IF l.k \in {"import", "from"} THEN LeadFrom(lines, i + 1, mode, pro, i)
                  ELSE IF l.k = "fromopen" THEN LeadFrom(lines, i + 1, "bracket", pro, imp)
                  ELSE IF l.k = "impassign" THEN [pro |-> pro, imp |-> i]
                  ELSE [pro |-> pro, imp |-> imp]

Lead(lines) == LeadFrom(lines, 1, "top", 0, 0)

\* C3: the scaffold goes after the interpreter directive and the module
\* docstring, and right after the last line of the leading run of import
\* statements when the file has one.
C3_InsertionAfterPrologueAndImports ==
  \A c \in Rewritten :
    /\ c.val.insert_line = _find_insertion_point(c.val.read)
    /\ c.val.insert_line >= Lead(c.val.read).pro
    /\ Lead(c.val.read).imp > 0 => c.val.insert_line = Lead(c.val.read).imp

\* C4: the element that is overwritten for an assignment of original line L
\* is the element that held line L of the original file, and only elements
\* that contain '=' are overwritten.
C4_OverwrittenElementIsTheAssignment ==
  \A c \in Rewritten :
    \A k \in DOMAIN c.val.todo :
      LET m == c.val
          adjusted == m.todo[k].line + m.line_offset - 1
      IN  /\ adjusted < Len(m.inserted)
          /\ OriginOf(m, adjusted) = m.todo[k].line
          /\ m.inserted[adjusted + 1] = m.read[m.todo[k].line]
          /\ (m.out[adjusted + 1] # m.inserted[adjusted + 1] => ContainsEq(m.inserted[adjusted + 1]))

\* C5: the line that replaces a Literal binding keeps the indentation of the
\* original line and its trailing inline comment around 'NAME = args.NAME'.
C5_ReplacementKeepsIndentAndComment ==
  \A c \in Rewritten :
    \A L \in LiteralLinesOf(c.key) :
      L > c.val.insert_line =>
        LET old == c.val.read[L]
            new == Written(c.val)[ShiftedPos(c.val, L)]
        IN  /\ new.k = "assign"
            /\ new.n = old.n
            /\ new.v = AttributeNode("args", old.n)
            /\ new.ind = old.ind
            /\ new.cmt = old.cmt

Finished == pc \in {"done", "crashed"}
ExtractionOver == pc \in {"prepare", "modify", "create", "done", "crashed"}
Listed == Range(python_files)

HasLiteral(bindings) == \E b \in Range(bindings) : ~b.is_expression

\* C6: when the command is over, every listed file whose classification gave
\* no Literal binding has the content it had before the command, the rewriter
\* returned False for it and no "Modified" message names it.
C6_NoLiteralFileUntouched ==
  Finished =>
    \A f \in Listed :
      ~HasLiteral(_extract_variables_from_file(before[f])) =>
        /\ files[f] = before[f]
        /\ f \notin modified
        /\ \A c \in Calls : c.key = f => ~c.val.written

\* C7: classifying a file that the rewriter has just written gives no Literal
\* binding for a name that was selected for rewriting, nor for the names
\* parser and args of the scaffold.
C7_RewrittenNamesNoLongerLiteral ==
  \A c \in Rewritten :
    \A b \in Range(_extract_variables_from_file(Written(c.val))) :
      ~b.is_expression =>
        b.name \notin {c.val.todo[k].name : k \in DOMAIN c.val.todo} \cup {NameParser, NameArgs}

\* the module-level assignments with a single plain-name target whose name
\* does not start with an underscore, as <<name, line>> in source order
PublicAssignSites(lines) ==
  LET at == SelectSeq(ModuleAssignLines(lines),
                      LAMBDA i : lines[i].k \in {"assign", "impassign", "assignopen"}
                                 /\ lines[i].n[1] # "_")
  IN  [j \in DOMAIN at |-> <<lines[at[j]].n, at[j]>>]

BindingSites(bindings) == [j \in DOMAIN bindings |-> <<bindings[j].name, bindings[j].line>>]

\* C8: for a file that parses, the classifier returns one binding for every
\* public single-name module-level assignment, in source order, and nothing
\* else; no such assignment is dropped.
C8_OneBindingPerPublicAssignment ==
  ExtractionOver =>
    \A f \in Listed :
      Parses(before[f]) => BindingSites(BindingsOf(f)) = PublicAssignSites(before[f])

TypeTags == {"bool", "int", "float", "str"}

\* C10: every entry of the manifest has a type that is one of bool, int,
\* float, str.
C10_ManifestTypeTags ==
  \A i \in DOMAIN config_data :
    \A j \in DOMAIN config_data[i].val :
      config_data[i].val[j].val.type \in TypeTags

\* ---- the classification rule of the specification: a constant, the
\* negation of a numeric constant, or a display whose elements are such
NegatedNumber(nd) ==
  /\ nd.node = "UnaryOp" /\ nd.op = "USub"
  /\ nd.elts[1].node = "Constant" /\ nd.elts[1].val.t \in {"int", "float"}

RECURSIVE LiteralShape(_)
LiteralShape(nd) ==
  CASE nd.node = "Constant" -> TRUE
    [] nd.node \in {"List", "Tuple", "Dict", "item"} ->
         \A i \in DOMAIN nd.elts : LiteralShape(nd.elts[i])
    [] OTHER -> NegatedNumber(nd)

SimExtractionOver == pc = "sim_prepare"

\* C9: with either classifier, a binding is Literal exactly when its
\* right-hand side is a constant, the negation of a numeric constant, or a
\* list, tuple or dict display made of constants.
C9_LiteralIffLiteralShape ==
  (ExtractionOver \/ SimExtractionOver) =>
    \A f \in Listed :
      \A b \in Range(BindingsOf(f)) :
        (~b.is_expression) <=> LiteralShape(before[f][b.line].v)

\* C11: the 'arg' field of every manifest entry, and the option that the
\* scaffold registers for it, is '--' followed by the identifier in lower case
\* with every underscore replaced by a hyphen.
C11_FlagIsLowerCaseHyphenated ==
  /\ \A i \in DOMAIN config_data :
       \A j \in DOMAIN config_data[i].val :
         config_data[i].val[j].val.arg = <<"-", "-">> \o LowerHyphen(config_data[i].val[j].key)
  /\ \A c \in Rewritten :
       \A k \in DOMAIN c.val.inserted :
         c.val.inserted[k].k = "addarg" =>
           OptionOf(c.val.inserted[k]) = <<"-", "-">> \o LowerHyphen(c.val.inserted[k].n)

\* the right-hand side of a binding could not be statically evaluated
Unevaluable(f, b) == IsEvalError(LiteralEval(before[f][b.line].v))

SimModificationOver == pc = "sim_create"

\* C12: with sim_manager.py, a binding whose right-hand side could not be
\* evaluated (its value is the source text) is no manifest entry, gets no
\* scaffold option and its line is not rewritten, whatever its shape.
C12_UnevaluableNeverConfigurable ==
  SimModificationOver =>
    \A f \in DictKeys(extracted_vars) :
      \A b \in Range(DictGet(extracted_vars, f)) :
        Unevaluable(f, b) =>
          /\ \A e \in Range(DictGet(config_data, f)) : ~(e.key = b.name /\ e.val.line = b.line)
          /\ \A c \in Calls : c.key = f =>
                /\ \A l \in Range(c.val.inserted) :
                      ~(l.k = "simaddarg" /\ l.n = b.name /\ l.v = Constant(b.value))
                /\ \A t \in Range(c.val.todo) : t.line # b.line

\* the entry values that the claim of the round trip names
SimpleValue(value) == value.t \in {"bool", "int", "str", "NoneType"}

SimpleManifest(config) ==
  \A i \in DOMAIN config : \A j \in DOMAIN config[i].val : SimpleValue(config[i].val[j].val.value)

\* the process of manager.py was started and CONFIG was evaluated
LauncherStarted ==
  launcher.pc \in {"select", "prompt"} \/ (launcher.pc = "exited" /\ launcher.exit # -1)

\* C13: for a manifest whose entry values are bool, int, str or None, the
\* text after 'CONFIG = ' evaluates at the start of the launcher to a mapping
\* equal to the manifest, True and False included.
C13_EmbeddedManifestRoundTrip ==
  (LauncherStarted /\ SimpleManifest(config_data)) =>
    /\ ~IsNameError(launcher.config)
    /\ launcher.config = ManifestValue(config_data)

\* the manifest of the running command of dev_tools.py is built
ManifestBuilt == pc \in {"modify", "create"}

\* the names of the entries of a file in the manifest, in iteration order
EntryNames(f) ==
  LET entries == DictGet(config_data, f) IN [j \in DOMAIN entries |-> entries[j].key]

\* C14: every listed file that parses is a key of the manifest; for a
\* directory of a file without module-level assignments and a file with three
\* literal assignments the manifest has both keys, the first with no entry and
\* the second with its three entries in declaration order, and only the
\* second file is modified.
C14_EveryProcessedFileIsAKey ==
  /\ ManifestBuilt =>
       \A f \in Listed : Parses(before[f]) => f \in DictKeys(config_data)
  /\ (pc = "create" /\ Listed = {FileA, FileB} /\ ModuleAssignLines(before[FileA]) = <<>>
        /\ Parses(before[FileA]) /\ before[FileB] = ThreeLiterals) =>
       /\ DictKeys(config_data) = {FileA, FileB}
       /\ DictGet(config_data, FileA) = <<>>
       /\ EntryNames(FileB) = <<NameX, NameY, NameZ>>
       /\ modified = {FileB}

StrictlyAscending(numbers) ==
  \A i \in DOMAIN numbers : \A j \in DOMAIN numbers : i < j => numbers[i] < numbers[j]

\* the recorded lines of the entries of a file, in iteration order
EntryLines(f) ==
  LET entries == DictGet(config_data, f) IN [j \in DOMAIN entries |-> entries[j].val.line]

\* the recorded lines of the entries whose options a scaffold registers, in
\* registration order
RegisteredLines(f, m) ==
  LET options == SelectSeq(m.inserted, LAMBDA l : l.k = "addarg")
  IN  [j \in DOMAIN options |-> DictGet(DictGet(config_data, f), options[j].n).line]

\* C15: in the manifest of dev_tools.py the entries of every file iterate in
\* strictly ascending order of their recorded line, and the scaffold
\* registers the options in that order, also when a name is assigned again.
C15_EntriesAscendByLine ==
  ManifestBuilt =>
    /\ \A f \in DictKeys(config_data) : StrictlyAscending(EntryLines(f))
    /\ \A c \in Rewritten : StrictlyAscending(RegisteredLines(c.key, c.val))

\* the lines of the module-level assignments that have the name as a target
AssignmentsOf(lines, name) ==
  {i \in Range(ModuleAssignLines(lines)) :
     \E t \in Range(Targets(lines[i])) : t.name /\ t.id = name}

ReboundNames(lines) ==
  {l.n : l \in {x \in Range(lines) : Cardinality(AssignmentsOf(lines, x.n)) > 1}}

\* C16: a name assigned more than once at module scope has no manifest
\* entry and no scaffold option, and none of its assignment lines is selected
\* for rewriting by the command of dev_tools.py.
C16_ReboundNamesExcluded ==
  pc = "create" =>
    \A f \in Listed :
      Parses(before[f]) =>
        \A name \in ReboundNames(before[f]) :
          /\ f \in DictKeys(config_data) => name \notin DictKeys(DictGet(config_data, f))
          /\ \A c \in Calls : c.key = f =>
                /\ \A l \in Range(c.val.inserted) : ~(l.k = "addarg" /\ l.n = name)
                /\ \A t \in Range(c.val.todo) : t.line \notin AssignmentsOf(before[f], name)

\* C17: when the target has returned the code c, the launcher ends with the
\* exit code c, and so does run_command when it started the launcher.
C17_ExitCodePropagated ==
  (launcher.pc = "exited" /\ launcher.child # -1) =>
    /\ launcher.exit = launcher.child
    /\ (launcher.via_run /\ launcher.run_exit # -1) => launcher.run_exit = launcher.child

\* the entries of the selected script in the manifest that the launcher loaded
SelectedEntries == ValGet(launcher.config, PyStr(<<launcher.script>>)).e

\* flag and string of the resolved value of the answered prompts whose value
\* differs from the default
RECURSIVE ExpectedArgs(_)
ExpectedArgs(answers) ==
  IF answers = <<>> THEN <<>>
  ELSE LET a == Head(answers)
           entry == a.item.e[2]
       IN  (IF a.value # Field(entry, "value")
            THEN <<Field(entry, "arg").s, Str(a.value)>> ELSE <<>>)
           \o ExpectedArgs(Tail(answers))

\* C18: the argument list of the launcher holds, for the entries in
\* ascending order of their line, the flag and the string of the resolved
\* value exactly of the entries whose resolved value differs from the
\* default; with empty input at every prompt the list is empty.
C18_ArgsOnlyForChangedValues ==
  launcher.script # "" =>
    LET answers == launcher.resolved
        items == [i \in DOMAIN answers |-> answers[i].item]
    IN  /\ launcher.args = ExpectedArgs(answers)
        /\ \A i \in DOMAIN items : \A j \in DOMAIN items :
              i < j => Field(items[i].e[2], "line").i <= Field(items[j].e[2], "line").i
        /\ Len(items) + Len(launcher.pending) = Len(SelectedEntries)
        /\ Range(items) \cup Range(launcher.pending) = Range(SelectedEntries)
        /\ (\A i \in DOMAIN answers : answers[i].token = <<>>) => launcher.args = <<>>

\* the target was run with an argument for one entry and none for another
C18_Witness ==
  /\ launcher.pc = "exited"
  /\ launcher.child # -1
  /\ launcher.args # <<>>
  /\ Len(launcher.resolved) >= 2
  /\ \E i \in DOMAIN launcher.resolved :
       launcher.resolved[i].value = Field(launcher.resolved[i].item.e[2], "value")
  /\ \E i \in DOMAIN launcher.resolved :
       /\ launcher.resolved[i].token # <<>>
       /\ launcher.resolved[i].value # Field(launcher.resolved[i].item.e[2], "value")

\* ------------------------- the conversion functions called on their own
\* the values of Literal bindings on which the functions are exercised
LiteralSamples ==
  { ClassifyValue(nd).value :
      nd \in { Constant(PyBool(TRUE)), Constant(PyBool(FALSE)), ConstInt, Constant(PyInt(0)),
                Constant(PyInt(7)), UnaryOp("USub", Constant(PyInt(5))),
                Constant(PyStr(Abc)), Constant(PyStr(<<>>)), Constant(PyStr(<<"y", "e", "s">>)),
                Constant(PyStr(<<"1", "0">>)), Constant(PyFloat(15)) } }

FunctionInit ==
  /\ files = [f \in FileNames |-> <<>>]
  /\ present = {}
  /\ pc = "idle"
  /\ idx = 0
  /\ python_files = <<>>
  /\ extracted_vars = <<>>
  /\ config_data = <<>>
  /\ modified = {}
  /\ mods = <<>>
  /\ before = files
  /\ runs = 0
  /\ launcher = LauncherOff
  /\ \E v \in LiteralSamples : call = [NoCall EXCEPT !.value = v]
  /\ pull = PullOff(files, present)

FunctionUnchanged ==
  UNCHANGED <<files, present, pc, idx, python_files, extracted_vars, config_data,
              modified, mods, before, runs, launcher, pull>>

\* get_user_input is called for an entry with this default and its type name
CallGetUserInput ==
  /\ \E user_input \in Tokens :
       call' = [fn |-> "get_user_input", value |-> call.value, text |-> user_input,
                result |-> get_user_input(call.value, TypeName(call.value), user_input)]
  /\ FunctionUnchanged

\* parse_args applies the registered type function to the text of an argument
CallCoerce ==
  /\ \E text \in Tokens \cup {Str(call.value)} :
       call' = [fn |-> "coerce", value |-> call.value, text |-> text,
                result |-> Coerce(call.value, text)]
  /\ FunctionUnchanged

FunctionNext == CallGetUserInput \/ CallCoerce

FunctionSpec == FunctionInit /\ [][FunctionNext]_vars

\* C19: for a bool entry and a non-empty token, get_user_input of the
\* launcher gives the boolean that the bool predicate of the scaffold gives
\* for the token.
C19_LauncherBoolLikeScaffold ==
  (call.fn = "get_user_input" /\ call.value.t = "bool" /\ call.text # <<>>) =>
    call.result = Coerce(call.value, call.text)

\* C20: for a Literal value v of type bool, int or str, the type function
\* registered for it, applied to str(v), gives a value equal to v.
C20_CoercionRecoversDefault ==
  (call.fn = "coerce" /\ call.value.t \in {"bool", "int", "str"} /\ call.text = Str(call.value)) =>
    call.result = call.value

\* the type function of a bool was applied to 'False'
C20_Witness ==
  /\ call.fn = "coerce"
  /\ call.value = PyBool(FALSE)
  /\ call.text = <<"F", "a", "l", "s", "e">>
  /\ call.text = Str(call.value)

\* ---- failures of single files
\* reading or parsing the file raises
FailsToParse(lines) == ~Decodes(lines) \/ ~Parses(lines)

\* writing the file raised in this run
WriteFailed(f) ==
  f \in DictKeys(mods) /\ ~DictGet(mods, f).written /\ DictGet(mods, f).line_offset > 0

\* the extraction loop of dev_tools.py is left with every listed file classified
ExtractionLoopClassifiesAll ==
  (pc = "extract" /\ pc' \in {"prepare", "done"}) =>
    \A f \in Listed :
      (IF f \in DictKeys(extracted_vars') THEN DictGet(extracted_vars', f) ELSE <<>>)
        = _extract_variables_from_file(files[f])

\* after the modification loop of dev_tools.py
IsolatedAfterModification ==
  pc = "create" =>
    \A f \in Listed :
      /\ BindingsOf(f) = _extract_variables_from_file(before[f])
      /\ FailsToParse(before[f]) =>
           (BindingsOf(f) = <<>> /\ f \notin DictKeys(mods) /\ f \notin modified
            /\ files[f] = before[f])
      /\ (HasLiteral(BindingsOf(f)) /\ ~WriteFailed(f)) =>
           (f \in modified /\ files[f] # before[f]
            /\ files[f] = WriteLines(Modify(before[f], BindingsOf(f)).out))
      /\ WriteFailed(f) => files[f] = before[f]

\* C21: a file whose read, parse or write fails does not keep
\* extract_and_link_fields_command from classifying every other file and from
\* rewriting every other file that has Literal bindings; a file that fails to
\* parse has no bindings and is not modified.
C21_PerFileFailureIsolation ==
  []IsolatedAfterModification /\ [][ExtractionLoopClassifiesAll]_vars

\* a.py failed to parse and b.py, which comes after it, was rewritten
C21_Witness ==
  /\ pc = "create"
  /\ FileA \in Listed /\ FailsToParse(before[FileA])
  /\ FileB \in modified /\ files[FileB] # before[FileB]

\* C22: for an existing directory extract_and_link_fields_command of
\* dev_tools.py completes normally whatever its files hold, and it does not
\* leave source files rewritten without having written the launcher: the step
\* that follows the modification loop ends the command normally with
\* manager.py written.
C22_CompletesNormallyWithLauncher ==
  [][pc = "create" =>
       (pc' = "done" /\ ManagerPy \in present'
        /\ files'[ManagerPy] = LauncherLines(config_data))]_vars

\* the names for which the classifier produced a Literal binding
LiteralNames(f) == {b.name : b \in {x \in Range(BindingsOf(f)) : ~x.is_expression}}

\* the names that have an entry in the manifest of a file
ManifestNames(f) ==
  IF f \in DictKeys(config_data) THEN DictKeys(DictGet(config_data, f)) ELSE {}

\* C23: the manifest of a file has an entry for a name exactly when the
\* classifier produced a Literal binding for the name; for the file
\* WIDTH = 10, HEIGHT = WIDTH * 2 the manifest has the single entry WIDTH of
\* type int with value 10, and the HEIGHT line is in the rewritten file as
\* it was.
C23_ManifestEntriesAreTheLiteralBindings ==
  /\ ManifestBuilt => \A f \in Listed : ManifestNames(f) = LiteralNames(f)
  /\ (pc = "create" /\ FileA \in Listed /\ before[FileA] = <<WidthLine, HeightLine>>) =>
       /\ DictGet(config_data, FileA) =
            <<[key |-> NameWidth,
               val |-> [value |-> PyInt(10), type |-> "int", line |-> 1,
                        arg |-> <<"-", "-">> \o NameWidth]]>>
       /\ FileA \in modified
       /\ files[FileA][Len(files[FileA])] = HeightLine
       /\ Len(SelectSeq(files[FileA], LAMBDA l : l.n = NameHeight)) = 1

\* the command has rewritten the file WIDTH = 10, HEIGHT = WIDTH * 2
C23_Witness ==
  /\ pc = "create"
  /\ FileA \in Listed /\ before[FileA] = <<WidthLine, HeightLine>>
  /\ FileA \in modified

\* the command of sim_manager.py is in or past its modification loop
SimModifying == pc \in {"sim_modify", "sim_create"}

\* the index in the written list of the first element of the parser block,
\* the element that starts with a newline
ParserBlockStart(out) ==
  CHOOSE i \in DOMAIN out :
    /\ out[i].k \in {"nlcomment", "nlassign"}
    /\ \A j \in 1..(i - 1) : out[j].k \notin {"nlcomment", "nlassign"}

\* C24: in every file that the command of sim_manager.py rewrites, the parser
\* block goes after the leading run of import lines of the file, and a line
\* 'import argparse' precedes the parser block.
C24_SimParserBlockAfterImports ==
  SimModifying =>
    \A c \in Rewritten :
      /\ Lead(c.val.read).imp <= c.val.insert_line
      /\ \E i \in 1..(ParserBlockStart(c.val.out) - 1) :
            ContainsImportOf(c.val.out[i], ModArgparse)

\* the command of dev_tools.py is in or past its modification loop
Modifying == pc \in {"modify", "create"}

\* C25: when the rewriter of dev_tools.py rewrites a Literal binding whose
\* statement spans several lines, no continuation line of the statement
\* follows the replacement line in the output, and the written file parses.
C25_MultiLineStatementReplacedWhole ==
  Modifying =>
    \A c \in Rewritten :
      \A k \in DOMAIN c.val.todo :
        LET m == c.val
            at == m.todo[k].line + m.line_offset
        IN  m.read[m.todo[k].line].k = "assignopen" =>
              /\ (at < Len(m.out) => m.out[at + 1].k \notin {"cont", "close"})
              /\ Parses(Written(m))

\* the option strings that the scaffold of a rewrite registers, in order
RegisteredOptions(m) ==
  LET added == SelectSeq(m.inserted, LAMBDA l : l.k = "addarg")
  IN  [j \in DOMAIN added |-> OptionOf(added[j])]

\* C26: in the scaffold that the rewriter of dev_tools.py inserts no two
\* registered options have the same option string.
C26_OptionStringsDistinct ==
  Modifying =>
    \A c \in Rewritten :
      LET options == RegisteredOptions(c.val)
      IN  \A i \in DOMAIN options : \A j \in DOMAIN options :
            i # j => options[i] # options[j]

\* ---- the manifest, the scaffold and the rewritten lines of one file
\* the attribute under which argparse stores the value of a long option: the
\* option string without its leading hyphens, inner hyphens as underscores
ArgparseDest(option) ==
  LET body == SubSeq(option, 3, Len(option))
  IN  [i \in DOMAIN body |-> IF body[i] = "-" THEN "_" ELSE body[i]]

\* the modification loop of either command is over
ModificationOver == pc \in {"create", "sim_create"}

\* the block that this run inserted into a file, as it was written
InsertedBlock(f) ==
  IF f \in modified
  THEN LET m == DictGet(mods, f)
       IN  SubSeq(m.out, m.insert_line + 1, m.insert_line + m.line_offset)
  ELSE <<>>

\* name and option string of the add_argument lines of the block
ScaffoldOptions(f) ==
  { <<l.n, IF l.k = "addarg" THEN OptionOf(l) ELSE SimOptionOf(l)>> :
      l \in {x \in Range(InsertedBlock(f)) : x.k \in {"addarg", "simaddarg"}} }

\* the written file has a line NAME = args.attr
ReadsAttribute(f, name, attr) ==
  \E i \in DOMAIN files[f] :
    LET l == files[f][i]
    IN  /\ l.k = "assign" /\ l.n = name
        /\ l.v.node = "Attribute" /\ l.v.op = "args" /\ l.v.val.s = attr

\* C27: for every file the names with a manifest entry are the names with an
\* option in the scaffold of the file, the 'arg' string of an entry is the
\* option string registered for its name, and the file has the assignment
\* that reads the attribute argparse derives from that option string.
C27_ManifestScaffoldAndRewriteAgree ==
  ModificationOver =>
    \A f \in Listed :
      /\ ManifestNames(f) = {o[1] : o \in ScaffoldOptions(f)}
      /\ \A name \in ManifestNames(f) :
            LET entry == DictGet(DictGet(config_data, f), name)
            IN  /\ <<name, entry.arg>> \in ScaffoldOptions(f)
                /\ ReadsAttribute(f, name, ArgparseDest(entry.arg))

\* C28: in no run of extract_and_link_fields_command of dev_tools.py is
\* manager.py a key of the manifest or a file handed to the rewriter.
C28_LauncherNeverATarget ==
  Modifying =>
    /\ ManagerPy \notin DictKeys(config_data)
    /\ ManagerPy \notin DictKeys(mods)

\* C29: when extract_and_link_fields_command of dev_tools.py returns
\* normally on a directory that holds at least one source file, manager.py
\* exists in the directory, so that run_command finds it.
C29_LauncherExistsAfterNormalReturn ==
  [][(pc \in {"extract", "create"} /\ pc' = "done" /\ python_files # <<>>) =>
       ManagerPy \in present']_vars

\* C30: when pull_command has finished, a repository that had a manager.py
\* when the command started has a manager.py, whatever the outcomes of
\* git reset --hard and git pull were.
C30_PullKeepsLauncher ==
  (pull.pc = "finished" /\ pull.had_manager) => ManagerPy \in present

====
